---- MODULE Spec2Model ----
(***************************************************************************)
(* The OBD-II connection managers of car_diagnostic_agent/app:             *)
(*   "base"     obd_interface.py          OBDInterfaceManager              *)
(*   "enhanced" enhanced_obd_interface.py PersistentOBDInterfaceManager    *)
(*   "bluetooth" bluetooth_obd_interface.py PersistentOBDInterfaceManager  *)
(* Every asyncio task (a caller, the keep-alive loop, the monitor loop) is *)
(* a record of tk; one action is the code a task runs between two          *)
(* suspension points (lock acquire, run_in_executor, sleep, await task).   *)
(* Calls handed to the thread pool keep running when the awaiting task is  *)
(* cancelled: they are the orphans.                                        *)
(***************************************************************************)
EXTENDS Integers, Sequences, FiniteSets, TLC

\* ------------------------------------------------------------- bounds
NumCallers == 1
MaxLoops == 3
MaxHandles == 2
MaxPids == 2
MaxDtcs == 2
MaxValue == 3
MaxVinLen == 18
MaxCalls == 4

\* -------------------------------------------------- program constants
EnhMaxRetries == 3
DefaultCfgRetries == 3
QueryAttempts == 3
BtMaxRetries == 2
BtQueryAttempts == 2
RpmDefault == 750
VinLength == 17
VinYearPos == 10

Callers == 1..NumCallers
Loops == (NumCallers + 1)..(NumCallers + MaxLoops)
Tasks == Callers \cup Loops
Handles == 1..MaxHandles
Kinds == {"base", "enhanced"}
TaskImpls == {"C", "Py"}
\* config overrides a caller passes to connect(): 0 is None, another value
\* is a config whose max_retries is that value
Overrides == {0, 1}

ErrNotConnected == "Not connected to OBD adapter"
ErrNotConnectedMock == "Not connected to mock OBD adapter"
ErrReconnectFailed == "Not connected to OBD adapter and reconnection failed"
ErrEstablish == "Failed to establish OBD connection"
ErrOpen == "open raised"
ErrClose == "close raised"
ErrNoData == "No data received for command"
ErrIO == "io error"
ErrAwaitSelf == "await wasn't used with future"
ErrAttribute == "AttributeError"
ErrBtReconnectFailed == "Not connected and reconnection failed"
ErrBtLost == "Connection lost and reconnection failed"
ErrBtNoData == "No data for command"
ErrBtSerial == "Serial error"
RaisedAttribute == "raise: AttributeError"

VARIABLES
  kind,          \* which manager class is instantiated
  taskImpl,      \* asyncio Task implementation of the interpreter
  autoReconnect, \* self._auto_reconnect
  conn,          \* self._connection: 0 is None, else a handle
  flag,          \* self._is_connected
  cmds,          \* self._supported_commands is non-empty
  cfg,           \* self.config.max_retries
  lock,          \* holder of self._connection_lock, 0 when free
  kaTask,        \* self._keep_alive_task, 0 is None
  monTask,       \* self._connection_monitor_task, 0 is None
  hst,           \* the adapter side of every handle
  tk,            \* the tasks
  orphans,       \* thread-pool calls whose awaiting task was cancelled
  last,          \* what the call that returned in the last step handed back
  mon,           \* LiveDataService: _monitoring_active, callback, loop task
  batch,         \* the read_multiple_parameters calls in progress
  rd,            \* the read_parameter tasks they created
  sv,            \* the task calling the services
  slast,         \* what the service call that returned last handed back
  eng,           \* the codes and readings under diagnosis and what was
                 \* derived from them
  reading,       \* a LiveDataReading and what is_within_range gave for it
  vinfo,         \* a VIN and what _parse_vin made of it
  session,       \* a DiagnosticSession
  mock           \* a MockOBDInterfaceManager

vars == <<kind, taskImpl, autoReconnect, conn, flag, cmds, cfg, lock, kaTask,
          monTask, hst, tk, orphans, last, mon, batch, rd, sv, slast, eng,
          reading, vinfo, session, mock>>

dataVars == <<reading, vinfo, session, mock>>

svcVars == <<mon, batch, rd, sv, slast>>

mgr == <<conn, flag, cmds, cfg, lock, kaTask, monTask>>
static == <<kind, taskImpl, autoReconnect>>

FreeTask == [kind |-> "free", pc |-> "done", op |-> "none", ov |-> 0,
             re |-> FALSE, site |-> "none", att |-> 0, h |-> 0, out |-> "none",
             mc |-> FALSE, blk |-> FALSE, pre |-> FALSE, pconn |-> 0,
             seq2 |-> FALSE, prev |-> "none", opens |-> 0, closes |-> 0,
             sends |-> 0, delay |-> 0, bad |-> FALSE, recs |-> 0]

IdleCaller == [FreeTask EXCEPT !.kind = "caller", !.pc = "idle"]

NoResult == [op |-> "none", ok |-> FALSE, err |-> "", pre |-> FALSE,
             pconn |-> 0, seq2 |-> FALSE, opens |-> 0, closes |-> 0,
             sends |-> 0, bad |-> FALSE, keys |-> {}, recs |-> 0]

\* no call has returned in the step just taken
Quiet == [c \in Callers |-> NoResult]

\* the is_connected property over given field values: the base manager
\* never asks the handle, the persistent one does
Connected(f, c, hs) ==
  IF kind = "base"
    THEN f /\ c # 0
    ELSE f /\ c # 0 /\ hs[c] = "up"

IsConnected == Connected(flag, conn, hst)

\* ------------------------------------------- codes and live readings

\* a trouble code is the sequence of its five characters
Codes == {<<"P", "0", a, b, c>> : a \in {"1", "3", "4"},
                                  b \in {"0", "2", "7"},
                                  c \in {"0", "1", "2"}}
DtcLists == UNION {[1..n -> Codes] : n \in 0..MaxDtcs}

\* the value of DTCSeverity a trouble code's dictionary carries
Severities == {"critical", "warning", "info"}

\* trouble codes given to the validation with a severity of any value: a
\* fuel-trim code, an air-flow sensor code, three codes P03xx, a catalyst
\* code and a code of no family
ValCodes == {<<"P", "0", "1", "7", "1">>, <<"P", "0", "1", "0", "1">>,
             <<"P", "0", "3", "0", "0">>, <<"P", "0", "3", "0", "1">>,
             <<"P", "0", "3", "4", "0">>,
             <<"P", "0", "4", "2", "0">>, <<"P", "0", "1", "2", "0">>}
ValDtcLists == UNION {[1..n -> ValCodes] : n \in 0..MaxDtcs}

\* the live_data dictionary: per parameter id no entry, an entry with
\* in_range true, an entry with in_range false
LivePids == {"0C", "05"}
LiveMaps == [LivePids -> {"absent", "in", "out"}]

NoDiagnosis == [phase |-> "input", dtcs |-> <<>>,
                live |-> [p \in LivePids |-> "absent"],
                sev |-> <<>>, hyps |-> <<>>, warns |-> <<>>]

EngineIdle == eng = NoDiagnosis

\* ------------------------------------------------ obd_models.py records

\* an Optional[float] that is None
None == -1

NoReading == [phase |-> "none", value |-> 0, min_value |-> None,
              max_value |-> None, is_within_range |-> FALSE]

NoVin == [phase |-> "none", vin |-> <<>>, make |-> "None", model |-> "None",
          year |-> None]

\* no DiagnosticSession yet; now is the clock datetime.now() reads
NoSession == [made |-> FALSE, now |-> 0, start_time |-> None,
              end_time |-> None, dtcs_found |-> <<>>,
              live_data_readings |-> <<>>]

\* ------------------------------------ MockOBDInterfaceManager records

\* _mock_dtcs and _mock_live_data["RPM"] as __init__ sets them
BuiltInDtcs == << <<"P", "0", "1", "7", "1">>, <<"P", "0", "1", "7", "4">>,
                  <<"P", "0", "3", "0", "0">>, <<"P", "0", "3", "0", "1">>,
                  <<"P", "0", "4", "2", "0">> >>

\* the simulation_data dictionaries given to load_simulation_data: with or
\* without "obd_data", that with or without "dtcs", with or without a
\* "live_data" entry for "0C"
InjectCodes == {<<"P", "0", "1", "7", "1">>, <<"P", "0", "3", "0", "0">>,
                <<"P", "0", "9", "9", "9">>}
InjectLists == UNION {[1..n -> InjectCodes] : n \in 0..MaxDtcs}
RpmInputs == {900, 1200}
NoSim == [given |-> FALSE, obd_data |-> FALSE, has_dtcs |-> FALSE,
          dtcs |-> <<>>, rpm |-> None]
Sims ==
  {[NoSim EXCEPT !.given = TRUE]}
  \cup {[given |-> TRUE, obd_data |-> TRUE, has_dtcs |-> FALSE,
         dtcs |-> <<>>, rpm |-> r] : r \in RpmInputs \cup {None}}
  \cup {[given |-> TRUE, obd_data |-> TRUE, has_dtcs |-> TRUE,
         dtcs |-> d, rpm |-> r] : d \in InjectLists,
                                  r \in RpmInputs \cup {None}}

\* what a call on the mock handed back; codes is the "value" of a trouble
\* code query, tuples tells whether its elements are (code, "") tuples or
\* strings; dtcs is the list read_stored_dtcs returned
NoMockResult == [op |-> "none", success |-> FALSE, error |-> "",
                 protocol |-> "", value |-> None, unit |-> "",
                 codes |-> <<>>, tuples |-> FALSE, dtcs |-> <<>>]

\* no mock manager; cls tells the module of the class, flag is
\* _is_connected, connection tells whether _connection is an object,
\* linked whether the last of connect() and disconnect() was a connect(),
\* injected the last RPM value a simulation brought
NoMock == [made |-> FALSE, cls |-> "base", flag |-> FALSE,
           connection |-> FALSE, sim |-> NoSim, mock_dtcs |-> BuiltInDtcs,
           rpm |-> RpmDefault, linked |-> FALSE, injected |-> None,
           res |-> NoMockResult]

DataIdle ==
  /\ reading = NoReading
  /\ vinfo = NoVin
  /\ session = NoSession
  /\ mock = NoMock

\* ---------------------------------------------- obd_services.py records

\* parameter ids a caller asks for: "0C" has an entry in pid_commands, "ZZ"
\* has none
PidSet == {"0C", "ZZ"}
HasCommand(pid) == pid = "0C"
PidLists == UNION {[1..n -> PidSet] : n \in 0..MaxPids}
Slots == 1..MaxPids

\* who runs a read_multiple_parameters: a direct call or the monitoring loop
Owners == {"call", "loop"}

\* a read_parameter task: saw is the is_connected it found, asked that it
\* called query(), val that it returned a reading
NoRead == [st |-> "none", pid |-> "", saw |-> FALSE, asked |-> FALSE,
           val |-> FALSE]
NoBatch == [pids |-> <<>>, i |-> 0, res |-> {}]
NoMonitor == [active |-> FALSE, cb |-> FALSE, pids |-> <<>>, pc |-> "none",
              stopped |-> FALSE]
IdleService == [pc |-> "idle", asked |-> 0]
NoAnswer == [op |-> "none", empty |-> FALSE, keys |-> {}, expect |-> {},
             req |-> {}, saw |-> FALSE, asked |-> 0]

\* the services as constructed, nothing called yet
ServicesIdle ==
  /\ mon = NoMonitor
  /\ batch = [o \in Owners |-> NoBatch]
  /\ rd = [o \in Owners |-> [k \in Slots |-> NoRead]]
  /\ sv = IdleService
  /\ slast = NoAnswer

Init ==
  /\ kind \in Kinds
  /\ taskImpl \in (IF kind = "base" THEN {"C"} ELSE TaskImpls)
  /\ autoReconnect = (kind = "enhanced")
  /\ conn = 0
  /\ flag = FALSE
  /\ cmds = FALSE
  /\ cfg = DefaultCfgRetries
  /\ lock = 0
  /\ kaTask = 0
  /\ monTask = 0
  /\ hst = [h \in Handles |-> "free"]
  /\ tk = [t \in Tasks |-> IF t \in Callers THEN IdleCaller ELSE FreeTask]
  /\ orphans = {}
  /\ last = Quiet
  /\ ServicesIdle
  /\ DataIdle
  /\ EngineIdle

\* bluetooth_obd_interface.PersistentOBDInterfaceManager after __init__
BtInit ==
  /\ kind = "bluetooth"
  /\ taskImpl \in TaskImpls
  /\ autoReconnect = TRUE
  /\ conn = 0
  /\ flag = FALSE
  /\ cmds = FALSE
  /\ cfg = DefaultCfgRetries
  /\ lock = 0
  /\ kaTask = 0
  /\ monTask = 0
  /\ hst = [h \in Handles |-> "free"]
  /\ tk = [t \in Tasks |-> IF t \in Callers THEN IdleCaller ELSE FreeTask]
  /\ orphans = {}
  /\ last = Quiet
  /\ ServicesIdle
  /\ DataIdle
  /\ EngineIdle

\* ------------------------------------------------------------ helpers

\* a thread-pool command still holds the handle it was sent on
JobOn(tks, orph, h) ==
  \/ \E t \in Tasks : tks[t].h = h /\ tks[t].pc \in {"k_exec", "q_exec", "b_health"}
  \/ \E o \in orph : o.h = h

\* handle objects nothing refers to any more are dropped
Dropped(hs, c, tks, orph) ==
  {h \in Handles : hs[h] # "free" /\ c # h /\ ~JobOn(tks, orph, h)}

NormH(hs, c, tks, orph) ==
  [h \in Handles |->
     IF h \in Dropped(hs, c, tks, orph) THEN "free" ELSE hs[h]]

HasFreeHandle == \E h \in Handles : hst[h] = "free"
NewHandle == CHOOSE h \in Handles :
               hst[h] = "free" /\ \A g \in Handles : hst[g] = "free" => h <= g

\* what a call is observed for: a caller's connect for the handle it found
\* and its opens, a disconnect for its closes and for coming after another
\* disconnect, a query for whether it opened and for its commands; the loops
\* for nothing. A connect is also observed for having been given a config
\* that OBDConfigManager.validate_config would reject
Strip(t, me) ==
  [me EXCEPT
     !.pre = IF t \in Callers THEN @ ELSE FALSE,
     !.pconn = IF t \in Callers /\ me.op = "connect" THEN @ ELSE 0,
     !.seq2 = IF t \in Callers /\ me.op = "disconnect" THEN @ ELSE FALSE,
     !.opens = IF t \in Callers /\ me.op = "connect" THEN @
               ELSE IF t \in Callers /\ me.op = "query" /\ @ > 0 THEN 1
               ELSE 0,
     !.closes = IF t \in Callers /\ me.op = "disconnect" THEN @ ELSE 0,
     !.sends = IF t \in Callers /\ me.op = "query" THEN @ ELSE 0,
     !.bad = IF t \in Callers /\ me.op = "connect" THEN @ ELSE FALSE,
     !.recs = IF t \in Callers /\ me.op = "query" THEN @ ELSE 0]

\* the OBDResponse a call hands back, with what the call did
Result(t, me, ok, err) ==
  LET m == Strip(t, me)
  IN [op |-> m.op, ok |-> ok, err |-> err, pre |-> m.pre, pconn |-> m.pconn,
      seq2 |-> m.seq2, opens |-> m.opens, closes |-> m.closes,
      sends |-> m.sends, bad |-> m.bad, keys |-> {}, recs |-> m.recs]

\* a public call returns to its caller; "raise:" in front of err says the
\* call raised instead of returning an OBDResponse
ReturnToCaller(tks, t, me, ok, err) ==
  /\ tk' = [tks EXCEPT ![t] = [IdleCaller EXCEPT !.prev =
                 IF me.op = "disconnect" THEN "disconnect"
                 ELSE IF ok /\ me.op \in {"connect", "reconnect"}
                        THEN "connected" ELSE "none"]]
  /\ last' = [Quiet EXCEPT ![t] = Result(t, me, ok, err)]

\* ------------------------------------------------------------ callers

\* connect(config): ov is the max_retries of the config passed, 0 for none;
\* bad says the config passed has a baud rate validate_config rejects
StartConnect(c, ov, bad) ==
  /\ tk[c].pc = "idle"
  /\ bad => ov # 0
  /\ tk' = [tk EXCEPT ![c] = [IdleCaller EXCEPT !.op = "connect", !.ov = ov,
                                               !.bad = bad,
                                               !.pc = "cn_lock"]]
  /\ last' = Quiet
  /\ UNCHANGED <<static, svcVars, eng, dataVars, mgr, hst, orphans>>

StartDisconnect(c) ==
  /\ tk[c].pc = "idle"
  /\ tk' = [tk EXCEPT ![c] = [IdleCaller EXCEPT !.op = "disconnect",
                 !.pc = "dc_lock", !.seq2 = (tk[c].prev = "disconnect")]]
  /\ last' = Quiet
  /\ UNCHANGED <<static, svcVars, eng, dataVars, mgr, hst, orphans>>

\* reconnect(): disconnect() then connect()
StartReconnect(c) ==
  /\ tk[c].pc = "idle"
  /\ tk' = [tk EXCEPT ![c] = [IdleCaller EXCEPT !.op = "reconnect",
                 !.re = TRUE, !.site = "caller", !.pc = "dc_lock",
                 !.pre = IsConnected]]
  /\ last' = Quiet
  /\ UNCHANGED <<static, svcVars, eng, dataVars, mgr, hst, orphans>>

\* the keys of the dictionary get_connection_info() builds
InfoKeys(connected) ==
  IF connected
    THEN {"connected", "port", "protocol", "supported_commands", "config"}
    ELSE {"connected", "port", "protocol", "supported_commands"}

\* get_connection_info(): no await in it, so it runs in one step
GetConnectionInfo(c) ==
  /\ tk[c].pc = "idle"
  /\ last' = [Quiet EXCEPT ![c] =
                [NoResult EXCEPT !.op = "info", !.ok = TRUE,
                                 !.pre = IsConnected,
                                 !.keys = InfoKeys(IsConnected)]]
  /\ UNCHANGED <<static, svcVars, eng, dataVars, mgr, hst, tk, orphans>>

\* --------------------------------------------- obd_interface.py (base)

\* connect(): no already-connected test; one _attempt_connection
BaseConnectLock(t) ==
  /\ kind = "base"
  /\ tk[t].pc = "cn_lock"
  /\ lock = 0
  /\ lock' = t
  /\ cfg' = IF tk[t].ov # 0 /\ ~tk[t].re THEN tk[t].ov ELSE cfg
  /\ tk' = [tk EXCEPT ![t] = Strip(t, [@ EXCEPT !.pc = "cn_open",
                 !.pre = IF tk[t].re THEN @ ELSE IsConnected,
                 !.pconn = IF tk[t].re THEN @ ELSE conn,
                 !.opens = @ + 1])]
  /\ last' = Quiet
  /\ UNCHANGED <<static, svcVars, eng, dataVars, conn, flag, cmds, kaTask, monTask,
               hst, orphans>>

\* obd.OBD(...) came back from the thread pool
BaseOpenDone(t, outcome) ==
  /\ kind = "base"
  /\ tk[t].pc = "cn_open"
  /\ HasFreeHandle
  /\ UNCHANGED <<static, svcVars, eng, dataVars, cfg, kaTask, monTask, orphans>>
  /\ lock' = 0
  /\ LET me == tk[t]
          h == NewHandle
          newh == IF outcome = "raise" THEN hst
                  ELSE [hst EXCEPT ![h] = outcome]
     IN /\ conn' = IF outcome = "raise" THEN conn ELSE h
        /\ flag' = IF outcome = "up" THEN TRUE ELSE flag
        /\ cmds' = IF outcome = "up" THEN TRUE ELSE cmds
        /\ ReturnToCaller(tk, t, me, outcome = "up",
              CASE outcome = "up" -> ""
                [] outcome = "failed" -> ErrEstablish
                [] OTHER -> ErrOpen)
        /\ hst' = NormH(newh, conn', tk', orphans')

\* disconnect(): close, then clear; an exception of close() skips the clear
BaseDisconnect(t, closeRaises) ==
  /\ kind = "base"
  /\ tk[t].pc = "dc_lock"
  /\ lock = 0
  /\ closeRaises => conn # 0
  /\ UNCHANGED <<static, svcVars, eng, dataVars, cfg, lock, kaTask, monTask, orphans>>
  /\ LET me == [tk[t] EXCEPT !.pre = IF tk[t].re THEN @ ELSE IsConnected,
                               !.pconn = IF tk[t].re THEN @ ELSE conn,
                               !.closes = IF conn # 0 THEN @ + 1 ELSE @]
          newh == IF conn # 0 /\ ~closeRaises
                    THEN [hst EXCEPT ![conn] = "closed"] ELSE hst
     IN /\ conn' = IF closeRaises THEN conn ELSE 0
        /\ flag' = IF closeRaises THEN flag ELSE FALSE
        /\ cmds' = IF closeRaises THEN cmds ELSE FALSE
        /\ IF me.re
             THEN /\ tk' = [tk EXCEPT ![t] = Strip(t, [me EXCEPT
                                                          !.pc = "cn_lock"])]
                  /\ last' = Quiet
             ELSE ReturnToCaller(tk, t, me, ~closeRaises,
                    IF closeRaises THEN ErrClose ELSE "")
        /\ hst' = NormH(newh, conn', tk', orphans')

\* query(), the second definition (the one the class keeps): awaits nothing
BaseQuery(c) ==
  /\ kind = "base"
  /\ tk[c].pc = "idle"
  /\ UNCHANGED <<static, svcVars, eng, dataVars, mgr, hst, orphans>>
  /\ LET me == [IdleCaller EXCEPT !.op = "query", !.pre = IsConnected]
     IN IF ~IsConnected
          THEN ReturnToCaller(tk, c, me, FALSE, ErrNotConnectedMock)
          ELSE \* self._simulation_data is no attribute of this class
               ReturnToCaller(tk, c, me, FALSE, RaisedAttribute)

\* the adapter link of an open handle drops silently
LinkDrop(h) ==
  /\ hst[h] = "up"
  /\ hst' = [hst EXCEPT ![h] = "lost"]
  /\ last' = Quiet
  /\ UNCHANGED <<static, svcVars, eng, dataVars, mgr, tk, orphans>>

\* ------------------------------- enhanced_obd_interface.py (persistent)

LoopLive(tks, x) == x # 0 /\ tks[x].pc # "done"

\* task.cancel() on a suspended loop: CancelledError ends it where it waits
CancelLoop(tks, x) == [tks EXCEPT ![x] = FreeTask]

\* the command a cancelled keep-alive had handed to the thread pool goes on
OrphanOf(tks, x) ==
  IF tks[x].pc = "k_exec" THEN {[what |-> "ka", h |-> tks[x].h]} ELSE {}

FreeSlots(tks) == {x \in Loops : tks[x].pc = "done"}
Lowest(S) == CHOOSE x \in S : \A y \in S : x <= y

NewKeepAlive == [FreeTask EXCEPT !.kind = "ka", !.pc = "k_sleep"]
NewMonitor == [FreeTask EXCEPT !.kind = "mon", !.pc = "m_sleep"]

\* a reference to a task that is done is never used again: it is kept as None
Ref(x, tks) == IF x # 0 /\ tks[x].pc = "done" THEN 0 ELSE x

\* the fields written with the connection lock never given back
CommitKeepsLock(c, f, s, lk, orph) ==
  /\ conn' = c
  /\ flag' = f
  /\ cmds' = s
  /\ lock' = IF lk = 0 THEN lock ELSE lk
  /\ orphans' = orph

Commit(c, f, s, lk, orph) ==
  /\ conn' = c
  /\ flag' = f
  /\ cmds' = s
  /\ lock' = lk
  /\ orphans' = orph

Settle(hs, ka, mo) ==
  /\ hst' = NormH(hs, conn', tk', orphans')
  /\ kaTask' = Ref(ka, tk')
  /\ monTask' = Ref(mo, tk')

Stay(tks, t, me) ==
  /\ tk' = [tks EXCEPT ![t] = Strip(t, me)]
  /\ last' = Quiet

\* a retry loop that goes round once more than range(max_retries)
QueryRetryOnceMore(tks, t, me, err) ==
  IF me.att < QueryAttempts
    THEN Stay(tks, t, [me EXCEPT !.pc = "q_sleep"])
    ELSE ReturnToCaller(tks, t, me, FALSE, err)

\* query(): the retry loop after an empty answer or an exception
QueryRetryOrFail(tks, t, me, err) ==
  IF me.att < QueryAttempts - 1
    THEN Stay(tks, t, [me EXCEPT !.pc = "q_sleep"])
    ELSE ReturnToCaller(tks, t, me, FALSE, err)

\* query(): loop.run_in_executor(None, self._connection.query, command)
QueryDispatch(tks, t, me, c) ==
  IF c = 0
    THEN QueryRetryOrFail(tks, t, [me EXCEPT !.out = "attr", !.h = 0],
                          ErrAttribute)
    ELSE Stay(tks, t, [me EXCEPT !.pc = "q_exec", !.h = c, !.out = "none",
                                 !.sends = @ + 1])

\* bluetooth query(): the retry after an empty answer or an exception that
\* is no serial error
BtRetryOrFail(tks, t, me, err) ==
  IF me.att < BtQueryAttempts - 1
    THEN Stay(tks, t, [me EXCEPT !.pc = "q_sleep"])
    ELSE ReturnToCaller(tks, t, me, FALSE, err)

\* bluetooth query(): one pass of the loop,
\* loop.run_in_executor(None, self._connection.query, command)
BtSend(tks, t, me, c) ==
  IF c = 0
    THEN BtRetryOrFail(tks, t, [me EXCEPT !.out = "attr", !.h = 0],
                       ErrAttribute)
    ELSE Stay(tks, t, [me EXCEPT !.pc = "q_exec", !.h = c, !.out = "none",
                                 !.sends = @ + 1])

\* bluetooth query(): reconnect() called from the place named
BtReconnect(tks, t, me, from) ==
  Stay(tks, t, [me EXCEPT !.pc = "dc_lock", !.re = TRUE, !.site = from,
                          !.recs = IF me.sends = 0 THEN @ + 1 ELSE @])

\* bluetooth query(): the health test has failed
BtHealthFailed(tks, t, me, c) ==
  IF autoReconnect
    THEN BtReconnect(tks, t, me, "bt_health")
    ELSE BtSend(tks, t, [me EXCEPT !.att = 0], c)

\* _test_connection_health: False without a handle, else ELM_VERSION is
\* handed to the thread pool
BtHealth(tks, t, me, c) ==
  IF c = 0
    THEN BtHealthFailed(tks, t, me, c)
    ELSE Stay(tks, t, [me EXCEPT !.pc = "b_health", !.h = c, !.out = "none"])

\* bluetooth query(): what follows each of its three reconnect() calls
BtAfterReconnect(tks, t, me, ok, c) ==
  LET m == [me EXCEPT !.re = FALSE, !.att = 0]
  IN CASE me.site = "bt_query" ->
            IF ok THEN BtHealth(tks, t, m, c)
                  ELSE ReturnToCaller(tks, t, me, FALSE, ErrBtReconnectFailed)
       [] me.site = "bt_health" ->
            IF ok THEN BtSend(tks, t, m, c)
                  ELSE ReturnToCaller(tks, t, me, FALSE, ErrBtLost)
       [] OTHER -> \* after a serial error of the first pass
            IF ok THEN BtSend(tks, t, [m EXCEPT !.att = 1], c)
                  ELSE ReturnToCaller(tks, t, me, FALSE, ErrBtLost)

\* reconnect() returns what its connect() returned, to the place it was
\* called from
AfterReconnect(tks, t, me, ok, err, c) ==
  CASE me.site = "caller" -> ReturnToCaller(tks, t, me, ok, err)
    [] me.site \in {"bt_query", "bt_health", "bt_serial"} ->
         BtAfterReconnect(tks, t, me, ok, c)
    [] me.site = "query" ->
         IF ok
           THEN QueryDispatch(tks, t, [me EXCEPT !.re = FALSE, !.att = 0],
                              c)
           ELSE ReturnToCaller(tks, t, me, FALSE, ErrReconnectFailed)
    [] OTHER -> \* the monitor goes to sleep; a pending cancel ends it there
         Stay(tks, t, IF me.mc THEN FreeTask
                      ELSE [NewMonitor EXCEPT !.blk = me.blk])

FinishConnect(tks, t, me, ok, err, c) ==
  IF me.re
    THEN AfterReconnect(tks, t, me, ok, err, c)
    ELSE ReturnToCaller(tks, t, me, ok, err)

FinishDisconnect(tks, t, me, ok, err) ==
  IF me.re
    THEN Stay(tks, t, [me EXCEPT !.pc = "cn_lock"])
    ELSE ReturnToCaller(tks, t, me, ok, err)

\* _stop_persistent_tasks in disconnect (stage "dc") and in
\* _start_persistent_tasks of connect (stage "cn"), from the keep-alive test
\* (phase "ka"), the monitor test ("mon") or past both ("fin"), and what
\* follows it up to the next suspension; c, f, s, hs are the fields so far
StopTasks(t, me, stage, phase, c, f, s, hs, closeRaises) ==
  LET kaLive == phase = "ka" /\ LoopLive(tk, kaTask)
      monLive == phase \in {"ka", "mon"} /\ LoopLive(tk, monTask)
      self == monTask = t
      selfRaise == self /\ me.blk /\ taskImpl = "C"
  IN
  IF kaLive THEN
    /\ Commit(c, f, s, t, orphans \cup OrphanOf(tk, kaTask))
    /\ Stay(CancelLoop(tk, kaTask), t, [me EXCEPT !.pc = stage \o "_waitKA"])
    /\ Settle(hs, kaTask, monTask)
  ELSE IF monLive /\ ~self THEN
    /\ Commit(c, f, s, t, orphans)
    /\ Stay(CancelLoop(tk, monTask), t, [me EXCEPT !.pc = stage \o "_waitMon"])
    /\ Settle(hs, kaTask, monTask)
  ELSE IF monLive /\ ~selfRaise THEN
    \* the monitor cancels and awaits itself: it is suspended once and the
    \* CancelledError it gets is swallowed by _stop_persistent_tasks
    /\ Commit(c, f, s, t, orphans)
    /\ Stay(tk, t, [me EXCEPT !.pc = stage \o "_waitMon", !.blk = TRUE])
    /\ Settle(hs, kaTask, monTask)
  ELSE IF monLive THEN
    \* a C Task awaited by itself again raises RuntimeError at once; the
    \* cancel request stays pending
    /\ Commit(c, f, s, 0, orphans)
    /\ IF stage = "dc"
         THEN FinishDisconnect(tk, t, [me EXCEPT !.mc = TRUE], FALSE,
                               ErrAwaitSelf)
         ELSE FinishConnect(tk, t, [me EXCEPT !.mc = TRUE], FALSE,
                            ErrAwaitSelf, c)
    /\ Settle(hs, kaTask, monTask)
  ELSE IF stage = "dc" THEN
    IF c # 0 /\ closeRaises
      THEN /\ Commit(c, f, s, 0, orphans)
           /\ FinishDisconnect(tk, t, [me EXCEPT !.closes = @ + 1], FALSE,
                               ErrClose)
           /\ Settle(hs, kaTask, monTask)
      ELSE LET newh == IF c # 0 THEN [hs EXCEPT ![c] = "closed"] ELSE hs
           IN /\ Commit(0, FALSE, FALSE, 0, orphans)
              /\ FinishDisconnect(tk, t,
                   [me EXCEPT !.closes = IF c # 0 THEN @ + 1 ELSE @],
                   TRUE, "")
              /\ Settle(newh, kaTask, monTask)
  ELSE
    \* asyncio.create_task for both workers
    /\ Cardinality(FreeSlots(tk) \ {t}) >= 2
    /\ LET k == Lowest(FreeSlots(tk) \ {t})
           m == Lowest(FreeSlots(tk) \ {t, k})
       IN /\ Commit(c, f, s, 0, orphans)
          /\ FinishConnect([tk EXCEPT ![k] = NewKeepAlive, ![m] = NewMonitor],
                           t, me, TRUE, "", c)
          /\ Settle(hs, k, m)

\* connect(): under the lock, the already-connected test, the config
\* override and the first _establish_connection attempt
EnhConnectLock(t) ==
  /\ kind # "base"
  /\ tk[t].pc = "cn_lock"
  /\ lock = 0
  /\ UNCHANGED <<static, svcVars, eng, dataVars>>
  /\ LET me == [tk[t] EXCEPT !.pre = IF tk[t].re THEN @ ELSE IsConnected,
                             !.pconn = IF tk[t].re THEN @ ELSE conn]
     IN IF IsConnected THEN
          /\ cfg' = cfg
          /\ Commit(conn, flag, cmds, 0, orphans)
          /\ FinishConnect(tk, t, me, TRUE, "", conn)
          /\ Settle(hst, kaTask, monTask)
        ELSE IF me.mc THEN
          \* the cancel pending on the monitor is delivered where it first
          \* suspends: at the await of the open it has just handed over
          /\ cfg' = cfg
          /\ Commit(conn, flag, cmds, 0,
                    orphans \cup {[what |-> "open", h |-> 0]})
          /\ Stay(tk, t, FreeTask)
          /\ Settle(hst, kaTask, monTask)
        ELSE
          /\ cfg' = IF me.ov # 0 THEN me.ov ELSE cfg
          /\ Commit(conn, flag, cmds, t, orphans)
          /\ Stay(tk, t, [me EXCEPT !.pc = "cn_open", !.att = 0,
                                    !.opens = @ + 1])
          /\ Settle(hst, kaTask, monTask)

\* a monitor with a cancel pending that has to wait for the lock
MonCancelledAtLock(t) ==
  /\ kind # "base"
  /\ tk[t].pc = "cn_lock"
  /\ tk[t].mc
  /\ lock # 0
  /\ Commit(conn, flag, cmds, lock, orphans)
  /\ Stay(tk, t, FreeTask)
  /\ Settle(hst, kaTask, monTask)
  /\ UNCHANGED <<static, svcVars, eng, dataVars, cfg>>

\* self._max_retries of the persistent manager instantiated
MaxRetries == IF kind = "bluetooth" THEN BtMaxRetries ELSE EnhMaxRetries

\* _establish_connection: obd.OBD(...) came back from the thread pool
EnhOpenDone(t, outcome) ==
  /\ kind # "base"
  /\ tk[t].pc = "cn_open"
  /\ HasFreeHandle
  /\ UNCHANGED <<static, svcVars, eng, dataVars, cfg>>
  /\ LET me == tk[t]
         h == NewHandle
         hs == IF outcome = "raise" THEN hst ELSE [hst EXCEPT ![h] = outcome]
         c == IF outcome = "raise" THEN conn ELSE h
         err == IF outcome = "raise" THEN ErrOpen ELSE ErrEstablish
     IN IF outcome = "up" THEN
          StopTasks(t, me, "cn", "ka", h, TRUE, TRUE, hs, FALSE)
        ELSE IF me.att < MaxRetries - 1 THEN
          /\ Commit(c, flag, cmds, t, orphans)
          /\ Stay(tk, t, [me EXCEPT !.pc = "cn_backoff",
                                    !.delay = me.att + 1])
          /\ Settle(hs, kaTask, monTask)
        ELSE
          /\ Commit(c, flag, cmds, 0, orphans)
          /\ FinishConnect(tk, t, me, FALSE, err, c)
          /\ Settle(hs, kaTask, monTask)

\* _establish_connection: the sleep between two attempts is over
EnhBackoffDone(t) ==
  /\ kind # "base"
  /\ tk[t].pc = "cn_backoff"
  /\ Stay(tk, t, [tk[t] EXCEPT !.pc = "cn_open", !.att = @ + 1,
                               !.delay = 0, !.opens = @ + 1])
  /\ UNCHANGED <<static, svcVars, eng, dataVars, mgr, hst, orphans>>

\* disconnect(): under the lock, up to the first await of a cancelled loop
\* or to the return
EnhDisconnectLock(t, closeRaises) ==
  /\ kind # "base"
  /\ tk[t].pc = "dc_lock"
  /\ lock = 0
  /\ UNCHANGED <<static, svcVars, eng, dataVars, cfg>>
  /\ LET me == [tk[t] EXCEPT !.pre = IF tk[t].re THEN @ ELSE IsConnected,
                             !.pconn = IF tk[t].re THEN @ ELSE conn]
     IN StopTasks(t, me, "dc", "ka", conn, flag, cmds, hst, closeRaises)

\* the awaited keep-alive task has ended
AwaitedKeepAlive(t, closeRaises) ==
  /\ kind # "base"
  /\ tk[t].pc \in {"dc_waitKA", "cn_waitKA"}
  /\ UNCHANGED <<static, svcVars, eng, dataVars, cfg>>
  /\ StopTasks(t, tk[t], IF tk[t].pc = "dc_waitKA" THEN "dc" ELSE "cn", "mon",
               conn, flag, cmds, hst, closeRaises)

\* the awaited monitor task has ended (or was the awaiting task itself)
AwaitedMonitor(t, closeRaises) ==
  /\ kind # "base"
  /\ tk[t].pc \in {"dc_waitMon", "cn_waitMon"}
  /\ UNCHANGED <<static, svcVars, eng, dataVars, cfg>>
  /\ StopTasks(t, tk[t], IF tk[t].pc = "dc_waitMon" THEN "dc" ELSE "cn", "fin",
               conn, flag, cmds, hst, closeRaises)

\* _keep_alive_worker: the sleep is over (or the task starts)
KeepAliveWake(t) ==
  /\ kind # "base"
  /\ tk[t].pc = "k_sleep"
  /\ IsConnected
  /\ Stay(tk, t, [tk[t] EXCEPT !.pc = "k_exec", !.h = conn])
  /\ UNCHANGED <<static, svcVars, eng, dataVars, mgr, hst, orphans>>

\* a keep-alive that gives the handle up when its command fails
KeepAliveDoneDrops(t, raises) ==
  /\ kind # "base"
  /\ tk[t].pc = "k_exec"
  /\ UNCHANGED <<static, svcVars, eng, dataVars, cfg>>
  /\ Commit(IF raises THEN 0 ELSE conn, IF raises THEN FALSE ELSE flag, cmds,
            lock, orphans)
  /\ Stay(tk, t, NewKeepAlive)
  /\ Settle(hst, kaTask, monTask)

\* _send_keep_alive_command: the command came back from the thread pool
KeepAliveDone(t, raises) ==
  /\ kind # "base"
  /\ tk[t].pc = "k_exec"
  /\ UNCHANGED <<static, svcVars, eng, dataVars, cfg>>
  /\ Commit(conn, IF raises THEN FALSE ELSE flag, cmds, lock,
            orphans)
  /\ Stay(tk, t, NewKeepAlive)
  /\ Settle(hst, kaTask, monTask)

\* _connection_monitor_worker: the sleep is over (or the task starts)
MonitorWake(t) ==
  /\ kind # "base"
  /\ tk[t].pc = "m_sleep"
  /\ ~IsConnected /\ autoReconnect
  /\ Stay(tk, t, [tk[t] EXCEPT !.pc = "dc_lock", !.re = TRUE, !.site = "mon"])
  /\ UNCHANGED <<static, svcVars, eng, dataVars, mgr, hst, orphans>>

\* a thread-pool call nobody awaits any more comes to its end
OrphanDone(o) ==
  /\ o \in orphans
  /\ orphans' = orphans \ {o}
  /\ hst' = NormH(hst, conn, tk, orphans')
  /\ last' = Quiet
  /\ UNCHANGED <<static, svcVars, eng, dataVars, mgr, tk>>

\* query(): the connection test, the reconnect and the first attempt
EnhStartQuery(c) ==
  /\ kind = "enhanced"
  /\ tk[c].pc = "idle"
  /\ UNCHANGED <<static, svcVars, eng, dataVars, mgr, hst, orphans>>
  /\ LET me == [IdleCaller EXCEPT !.op = "query", !.pre = IsConnected]
     IN IF IsConnected THEN
          /\ QueryDispatch(tk, c, me, conn)
        ELSE IF autoReconnect THEN
          /\ Stay(tk, c, [me EXCEPT !.pc = "dc_lock", !.re = TRUE,
                                    !.site = "query", !.recs = @ + 1])
        ELSE ReturnToCaller(tk, c, me, FALSE, ErrNotConnected)

\* query(): the command came back from the thread pool
EnhQueryDone(t, outcome) ==
  /\ kind = "enhanced"
  /\ tk[t].pc = "q_exec"
  /\ UNCHANGED <<static, svcVars, eng, dataVars, mgr, orphans>>
  /\ LET me == [tk[t] EXCEPT !.out = outcome]
     IN CASE outcome = "ok" -> ReturnToCaller(tk, t, me, TRUE, "")
          [] outcome = "null" -> QueryRetryOrFail(tk, t, me, ErrNoData)
          [] OTHER -> QueryRetryOrFail(tk, t, me, ErrIO)
  /\ hst' = NormH(hst, conn, tk', orphans)

\* query(): the sleep before the next attempt is over
EnhQuerySleepDone(t) ==
  /\ kind = "enhanced"
  /\ tk[t].pc = "q_sleep"
  /\ UNCHANGED <<static, svcVars, eng, dataVars, mgr, orphans>>
  /\ QueryDispatch(tk, t, [tk[t] EXCEPT !.att = @ + 1], conn)
  /\ hst' = NormH(hst, conn, tk', orphans)

\* ------------------------------- bluetooth_obd_interface.py (persistent)

\* query(): the connection test, the reconnect or the health test
BtStartQuery(c) ==
  /\ kind = "bluetooth"
  /\ tk[c].pc = "idle"
  /\ UNCHANGED <<static, svcVars, eng, dataVars, mgr, hst, orphans>>
  /\ LET me == [IdleCaller EXCEPT !.op = "query", !.pre = IsConnected]
     IN IF IsConnected THEN BtHealth(tk, c, me, conn)
        ELSE IF autoReconnect THEN BtReconnect(tk, c, me, "bt_query")
        ELSE ReturnToCaller(tk, c, me, FALSE, ErrNotConnected)

\* _test_connection_health: ELM_VERSION came back from the thread pool
BtHealthDone(t, outcome) ==
  /\ kind = "bluetooth"
  /\ tk[t].pc = "b_health"
  /\ UNCHANGED <<static, svcVars, eng, dataVars, mgr, orphans>>
  /\ LET me == [tk[t] EXCEPT !.out = outcome]
     IN IF outcome = "ok"
          THEN BtSend(tk, t, [me EXCEPT !.att = 0], conn)
          ELSE BtHealthFailed(tk, t, me, conn)
  /\ hst' = NormH(hst, conn, tk', orphans)

\* query(): the command came back from the thread pool; a serial error
\* clears the flag and closes and forgets the handle the manager has now
BtQueryDone(t, outcome) ==
  /\ kind = "bluetooth"
  /\ tk[t].pc = "q_exec"
  /\ UNCHANGED <<static, svcVars, eng, dataVars, cfg>>
  /\ LET me == [tk[t] EXCEPT !.out = outcome]
         closed == IF conn # 0 THEN [hst EXCEPT ![conn] = "closed"] ELSE hst
     IN IF outcome = "io" THEN
          /\ Commit(0, FALSE, cmds, lock, orphans)
          /\ IF me.att < 1 /\ autoReconnect
               THEN BtReconnect(tk, t, me, "bt_serial")
               ELSE ReturnToCaller(tk, t, me, FALSE, ErrBtSerial)
          /\ Settle(closed, kaTask, monTask)
        ELSE
          /\ Commit(conn, flag, cmds, lock, orphans)
          /\ CASE outcome = "ok" -> ReturnToCaller(tk, t, me, TRUE, "")
               [] outcome = "null" -> BtRetryOrFail(tk, t, me, ErrBtNoData)
               [] OTHER -> BtRetryOrFail(tk, t, me, ErrIO)
          /\ Settle(hst, kaTask, monTask)

\* query(): the sleep before the second pass is over
BtQuerySleepDone(t) ==
  /\ kind = "bluetooth"
  /\ tk[t].pc = "q_sleep"
  /\ UNCHANGED <<static, svcVars, eng, dataVars, mgr, orphans>>
  /\ BtSend(tk, t, [tk[t] EXCEPT !.att = @ + 1], conn)
  /\ hst' = NormH(hst, conn, tk', orphans)

NextEnhanced ==
  \/ \E c \in Callers : EnhStartQuery(c)
  \/ \E t \in Tasks : EnhConnectLock(t)
  \/ \E t \in Tasks : MonCancelledAtLock(t)
  \/ \E t \in Tasks, o \in {"up", "failed", "raise"} : EnhOpenDone(t, o)
  \/ \E t \in Tasks : EnhBackoffDone(t)
  \/ \E t \in Tasks, r \in BOOLEAN : EnhDisconnectLock(t, r)
  \/ \E t \in Tasks, r \in BOOLEAN : AwaitedKeepAlive(t, r)
  \/ \E t \in Tasks, r \in BOOLEAN : AwaitedMonitor(t, r)
  \/ \E t \in Loops : KeepAliveWake(t)
  \/ \E t \in Loops, r \in BOOLEAN : KeepAliveDone(t, r)
  \/ \E t \in Loops : MonitorWake(t)
  \/ \E o \in orphans : OrphanDone(o)
  \/ \E t \in Tasks, o \in {"ok", "null", "io"} : EnhQueryDone(t, o)
  \/ \E t \in Tasks : EnhQuerySleepDone(t)

NextBase ==
  \/ \E c \in Callers, ov \in Overrides, bad \in BOOLEAN :
        StartConnect(c, ov, bad)
  \/ \E c \in Callers : StartDisconnect(c)
  \/ \E c \in Callers : StartReconnect(c)
  \/ \E c \in Callers : GetConnectionInfo(c)
  \/ \E t \in Tasks : BaseConnectLock(t)
  \/ \E t \in Tasks, o \in {"up", "failed", "raise"} : BaseOpenDone(t, o)
  \/ \E t \in Tasks, r \in BOOLEAN : BaseDisconnect(t, r)
  \/ \E c \in Callers : BaseQuery(c)
  \/ \E h \in Handles : LinkDrop(h)

\* the bluetooth module's persistent manager: what it shares with the
\* enhanced one, and its own query()
NextBluetooth ==
  \/ \E c \in Callers : StartConnect(c, 0, FALSE)
  \/ \E c \in Callers : StartDisconnect(c)
  \/ \E c \in Callers : StartReconnect(c)
  \/ \E c \in Callers : BtStartQuery(c)
  \/ \E h \in Handles : LinkDrop(h)
  \/ \E t \in Tasks : EnhConnectLock(t)
  \/ \E t \in Tasks : MonCancelledAtLock(t)
  \/ \E t \in Tasks, o \in {"up", "failed", "raise"} : EnhOpenDone(t, o)
  \/ \E t \in Tasks : EnhBackoffDone(t)
  \/ \E t \in Tasks, r \in BOOLEAN : EnhDisconnectLock(t, r)
  \/ \E t \in Tasks, r \in BOOLEAN : AwaitedKeepAlive(t, r)
  \/ \E t \in Tasks, r \in BOOLEAN : AwaitedMonitor(t, r)
  \/ \E t \in Loops : KeepAliveWake(t)
  \/ \E t \in Loops, r \in BOOLEAN : KeepAliveDone(t, r)
  \/ \E t \in Loops : MonitorWake(t)
  \/ \E o \in orphans : OrphanDone(o)
  \/ \E t \in Tasks, o \in {"ok", "null", "io"} : BtHealthDone(t, o)
  \/ \E t \in Tasks, o \in {"ok", "null", "io", "exc"} : BtQueryDone(t, o)
  \/ \E t \in Tasks : BtQuerySleepDone(t)

\* the managers on their own: the services are not called
Next == NextBase \/ NextEnhanced

Spec == Init /\ [][Next]_vars

BtSpec == BtInit /\ [][NextBluetooth]_vars

\* ------------------------------------------------------ obd_services.py
\* The services over a manager of which they use is_connected and query().
\* What a query() answers is the environment's choice: "value" a success
\* whose value float() accepts, "nonnum" a success whose value it rejects,
\* "fail" a failure response, "raise" an exception.

QueryOutcomes == {"value", "nonnum", "fail", "raise"}

\* connect() and disconnect() of the manager, called by someone else
ManagerUp ==
  /\ ~IsConnected
  /\ conn' = 1
  /\ flag' = TRUE
  /\ cmds' = TRUE
  /\ hst' = [hst EXCEPT ![1] = "up"]
  /\ slast' = NoAnswer
  /\ UNCHANGED <<static, eng, dataVars, cfg, lock, kaTask, monTask, tk, orphans, last,
                 mon, batch, rd, sv>>

ManagerDown ==
  /\ IsConnected
  /\ conn' = 0
  /\ flag' = FALSE
  /\ cmds' = FALSE
  /\ hst' = [hst EXCEPT ![1] = "free"]
  /\ slast' = NoAnswer
  /\ UNCHANGED <<static, eng, dataVars, cfg, lock, kaTask, monTask, tk, orphans, last,
                 mon, batch, rd, sv>>

\* a finished task nobody awaits is gone
Reap(r, b) ==
  [o \in Owners |-> [k \in Slots |->
     IF r[o][k].st = "done" /\ b[o].i = 0 THEN NoRead ELSE r[o][k]]]

\* the tasks read_multiple_parameters creates, one per requested id
NewReads(pids) ==
  [k \in Slots |-> IF k <= Len(pids)
                     THEN [NoRead EXCEPT !.st = "start", !.pid = pids[k]]
                     ELSE NoRead]

InFlight(r, o) == \E k \in Slots : r[o][k].st \in {"start", "query", "orphan"}

\* what read_multiple_parameters hands back, with what its reads did
MultiAnswer(res, r) ==
  [op |-> "multi", empty |-> res = {}, keys |-> res,
   expect |-> {r[k].pid : k \in {j \in Slots : r[j].val}},
   req |-> {r[k].pid : k \in {j \in Slots : r[j].st # "none"}},
   saw |-> \E k \in Slots : r[k].saw,
   asked |-> Cardinality({k \in Slots : r[k].asked})]

\* read_multiple_parameters(pids), called directly: up to the first await
ReadMultipleParameters(pids) ==
  /\ sv.pc = "idle"
  /\ ~InFlight(rd, "call")
  /\ IF pids = <<>>
       THEN /\ slast' = MultiAnswer({}, [k \in Slots |-> NoRead])
            /\ UNCHANGED <<batch, rd, sv>>
       ELSE /\ batch' = [batch EXCEPT !["call"] =
                           [pids |-> pids, i |-> 1, res |-> {}]]
            /\ rd' = [rd EXCEPT !["call"] = NewReads(pids)]
            /\ sv' = [sv EXCEPT !.pc = "multi"]
            /\ slast' = NoAnswer
  /\ UNCHANGED <<static, eng, dataVars, mgr, hst, tk, orphans, last, mon>>

\* read_parameter without its is_connected test
ReadStepUnchecked(me, connected) ==
  IF ~HasCommand(me.pid)
    THEN [me EXCEPT !.st = "done", !.saw = connected]
    ELSE [me EXCEPT !.st = "query", !.saw = connected, !.asked = TRUE]

\* read_parameter: the is_connected test, the command lookup, the query
ReadStep(me, connected) ==
  IF ~connected THEN [me EXCEPT !.st = "done"]
  ELSE IF ~HasCommand(me.pid) THEN [me EXCEPT !.st = "done", !.saw = TRUE]
  ELSE [me EXCEPT !.st = "query", !.saw = TRUE, !.asked = TRUE]

\* read_parameter(pid) in its task: up to the await of query() or the
\* return. The tasks one read_multiple_parameters created stand one behind
\* the other in the event loop's ready queue, so their first steps run
\* without anything in between
ReadParameterRun(o) ==
  /\ \E k \in Slots : rd[o][k].st = "start"
  /\ rd' = Reap([rd EXCEPT ![o] =
                   [k \in Slots |-> IF rd[o][k].st = "start"
                                      THEN ReadStep(rd[o][k], IsConnected)
                                      ELSE rd[o][k]]],
                batch)
  /\ slast' = NoAnswer
  /\ UNCHANGED <<static, eng, dataVars, mgr, hst, tk, orphans, last, mon, batch, sv>>

\* read_parameter: query() came back; a reading is built from a success
\* whose value float() takes, everything else ends in None
ReadQueryDone(o, k, outcome) ==
  /\ rd[o][k].st = "query"
  /\ rd' = Reap([rd EXCEPT ![o][k] = [@ EXCEPT !.st = "done",
                                               !.val = outcome = "value"]],
                batch)
  /\ slast' = NoAnswer
  /\ UNCHANGED <<static, eng, dataVars, mgr, hst, tk, orphans, last, mon, batch, sv>>

\* read_multiple_parameters: "if result: results[pid] = result"
CollectAll(res, pid, val) == res \cup {pid}

Collect(res, pid, val) == IF val THEN res \cup {pid} ELSE res

\* read_multiple_parameters: the task it awaits is done
AwaitRead(o) ==
  /\ batch[o].i # 0
  /\ rd[o][batch[o].i].st = "done"
  /\ LET b == batch[o]
         me == rd[o][b.i]
         res == Collect(b.res, b.pids[b.i], me.val)
     IN IF b.i < Len(b.pids) THEN
          /\ batch' = [batch EXCEPT ![o] = [b EXCEPT !.i = @ + 1,
                                                     !.res = res]]
          /\ slast' = NoAnswer
          /\ UNCHANGED <<rd, sv, mon>>
        ELSE
          /\ batch' = [batch EXCEPT ![o] = NoBatch]
          /\ rd' = [rd EXCEPT ![o] = [k \in Slots |-> NoRead]]
          /\ IF o = "call"
               THEN /\ sv' = IdleService
                    /\ slast' = MultiAnswer(res, rd[o])
                    /\ mon' = mon
               ELSE /\ mon' = [mon EXCEPT !.pc = IF mon.cb /\ res # {}
                                                   THEN "callback"
                                                   ELSE "sleep"]
                    /\ slast' = NoAnswer
                    /\ sv' = sv
  /\ UNCHANGED <<static, eng, dataVars, mgr, hst, tk, orphans, last>>

\* start_monitoring(pids, interval, callback)
StartMonitoring(pids, cb) ==
  /\ sv.pc = "idle"
  /\ ~mon.active
  /\ ~InFlight(rd, "loop")
  /\ mon' = [active |-> TRUE, cb |-> cb, pids |-> pids, pc |-> "top",
             stopped |-> FALSE]
  /\ slast' = [NoAnswer EXCEPT !.op = "start"]
  /\ UNCHANGED <<static, eng, dataVars, mgr, hst, tk, orphans, last, batch, rd, sv>>

\* _monitoring_loop: the top of the loop, first or after the sleep, up to
\* the first await of read_multiple_parameters
LoopIterate ==
  /\ mon.pc \in {"top", "sleep"}
  /\ mon.pc = "sleep" => mon.pids # <<>>
  /\ IF mon.pids = <<>>
       THEN /\ mon' = [mon EXCEPT !.pc = "sleep"]
            /\ UNCHANGED <<batch, rd>>
       ELSE /\ mon' = [mon EXCEPT !.pc = "reading"]
            /\ batch' = [batch EXCEPT !["loop"] =
                           [pids |-> mon.pids, i |-> 1, res |-> {}]]
            /\ rd' = [rd EXCEPT !["loop"] = NewReads(mon.pids)]
  /\ slast' = NoAnswer
  /\ UNCHANGED <<static, eng, dataVars, mgr, hst, tk, orphans, last, sv>>

\* _monitoring_loop: the callback has returned or raised
LoopCallbackDone ==
  /\ mon.pc = "callback"
  /\ mon' = [mon EXCEPT !.pc = "sleep"]
  /\ slast' = NoAnswer
  /\ UNCHANGED <<static, eng, dataVars, mgr, hst, tk, orphans, last, batch, rd, sv>>

\* stop_monitoring(): up to the await of the loop task. cancel() reaches the
\* loop where it waits and, through it, the one task it is awaiting; the
\* query that task had in the thread pool goes on there
StopMonitoring ==
  /\ sv.pc = "idle"
  /\ IF ~mon.active
       THEN /\ slast' = [NoAnswer EXCEPT !.op = "stop"]
            /\ UNCHANGED <<mon, batch, rd, sv>>
       ELSE /\ mon' = [mon EXCEPT !.active = FALSE, !.pc = "none"]
            /\ batch' = [batch EXCEPT !["loop"] = NoBatch]
            /\ LET i == batch["loop"].i
                   r == IF i = 0 THEN rd
                        ELSE [rd EXCEPT !["loop"][i] =
                                IF @.st = "query"
                                  THEN [NoRead EXCEPT !.st = "orphan"]
                                  ELSE NoRead]
               IN rd' = Reap(r, batch')
            /\ sv' = [sv EXCEPT !.pc = "stop_wait"]
            /\ slast' = NoAnswer
  /\ UNCHANGED <<static, eng, dataVars, mgr, hst, tk, orphans, last>>

\* stop_monitoring(): the loop task has ended, the call returns
StopReturns ==
  /\ sv.pc = "stop_wait"
  /\ sv' = IdleService
  /\ mon' = [mon EXCEPT !.stopped = TRUE]
  /\ slast' = [NoAnswer EXCEPT !.op = "stop"]
  /\ UNCHANGED <<static, eng, dataVars, mgr, hst, tk, orphans, last, batch, rd>>

\* the thread-pool query of a cancelled read task returns
ReadThreadDone(o, k) ==
  /\ rd[o][k].st = "orphan"
  /\ rd' = [rd EXCEPT ![o][k] = NoRead]
  /\ slast' = NoAnswer
  /\ UNCHANGED <<static, eng, dataVars, mgr, hst, tk, orphans, last, mon, batch, sv>>

\* read_stored_dtcs(): up to the await of query() or the return
ReadStoredDtcs ==
  /\ sv.pc = "idle"
  /\ IF ~IsConnected
       THEN /\ slast' = [NoAnswer EXCEPT !.op = "dtc", !.empty = TRUE]
            /\ sv' = sv
       ELSE /\ sv' = [sv EXCEPT !.pc = "dtc_q", !.asked = 1]
            /\ slast' = NoAnswer
  /\ UNCHANGED <<static, eng, dataVars, mgr, hst, tk, orphans, last, mon, batch, rd>>

\* read_stored_dtcs(): query() came back; codes says the value was a
\* non-empty list of (code, description) tuples
DtcQueryDone(outcome, codes) ==
  /\ sv.pc = "dtc_q"
  /\ sv' = IdleService
  /\ slast' = [NoAnswer EXCEPT !.op = "dtc", !.saw = TRUE, !.asked = 1,
                               !.empty = ~(outcome = "value" /\ codes)]
  /\ UNCHANGED <<static, eng, dataVars, mgr, hst, tk, orphans, last, mon, batch, rd>>

\* get_vehicle_info(): up to the await of the first query() or the return
GetVehicleInfo ==
  /\ sv.pc = "idle"
  /\ IF ~IsConnected
       THEN /\ slast' = [NoAnswer EXCEPT !.op = "vinfo", !.empty = TRUE]
            /\ sv' = sv
       ELSE /\ sv' = [sv EXCEPT !.pc = "vi_vin", !.asked = 1]
            /\ slast' = NoAnswer
  /\ UNCHANGED <<static, eng, dataVars, mgr, hst, tk, orphans, last, mon, batch, rd>>

\* get_vehicle_info(): one of its three queries (VIN, PIDS_A,
\* CALIBRATION_ID) came back; each helper catches what its query raises
VehicleQueryDone(outcome) ==
  /\ sv.pc \in {"vi_vin", "vi_pids", "vi_cal"}
  /\ outcome \in QueryOutcomes
  /\ IF sv.pc = "vi_cal"
       THEN /\ sv' = IdleService
            /\ slast' = [NoAnswer EXCEPT !.op = "vinfo", !.saw = TRUE,
                                         !.asked = sv.asked]
       ELSE /\ sv' = [sv EXCEPT !.pc = IF sv.pc = "vi_vin" THEN "vi_pids"
                                                           ELSE "vi_cal",
                                !.asked = @ + 1]
            /\ slast' = NoAnswer
  /\ UNCHANGED <<static, eng, dataVars, mgr, hst, tk, orphans, last, mon, batch, rd>>

SvcInit ==
  /\ kind = "base"
  /\ taskImpl = "C"
  /\ autoReconnect = FALSE
  /\ conn = 0
  /\ flag = FALSE
  /\ cmds = FALSE
  /\ cfg = DefaultCfgRetries
  /\ lock = 0
  /\ kaTask = 0
  /\ monTask = 0
  /\ hst = [h \in Handles |-> "free"]
  /\ tk = [t \in Tasks |-> IF t \in Callers THEN IdleCaller ELSE FreeTask]
  /\ orphans = {}
  /\ last = Quiet
  /\ ServicesIdle
  /\ DataIdle
  /\ EngineIdle

SvcNext ==
  \/ ManagerUp
  \/ ManagerDown
  \/ \E pids \in PidLists : ReadMultipleParameters(pids)
  \/ \E o \in Owners : ReadParameterRun(o)
  \/ \E o \in Owners, k \in Slots, out \in QueryOutcomes :
        ReadQueryDone(o, k, out)
  \/ \E o \in Owners : AwaitRead(o)
  \/ \E pids \in PidLists, cb \in BOOLEAN : StartMonitoring(pids, cb)
  \/ LoopIterate
  \/ LoopCallbackDone
  \/ StopMonitoring
  \/ StopReturns
  \/ \E o \in Owners, k \in Slots : ReadThreadDone(o, k)
  \/ ReadStoredDtcs
  \/ \E out \in QueryOutcomes, codes \in BOOLEAN : DtcQueryDone(out, codes)
  \/ GetVehicleInfo
  \/ \E out \in QueryOutcomes : VehicleQueryDone(out)

SvcSpec == SvcInit /\ [][SvcNext]_vars

\* ------------------------------------- agent.py, the hypothesis engine
\* and obd_services.py, the severity classifier

StartsWith(code, p) == Len(code) >= Len(p) /\ SubSeq(code, 1, Len(p)) = p

\* "sub in code" of two strings
Contains(code, sub) ==
  \E i \in 1..(Len(code) - Len(sub) + 1) :
     SubSeq(code, i, i + Len(sub) - 1) = sub

CriticalPatterns == {<<"P", "0", "3", "0", "0">>, <<"P", "0", "3", "0">>,
                     <<"P", "0", "4", "2", "0">>, <<"P", "0", "4", "3", "0">>}
WarningPatterns == {<<"P", "0", "1", "7", "1">>, <<"P", "0", "1", "7", "2">>,
                    <<"P", "0", "1", "7", "4">>, <<"P", "0", "1", "7", "5">>}

\* the classifier with its critical patterns matched as whole codes
DetermineSeverityExact(code) ==
  IF code \in CriticalPatterns THEN "critical"
  ELSE IF \E p \in WarningPatterns : StartsWith(code, p) THEN "warning"
  ELSE "info"

\* _determine_severity: the critical patterns first, then the warning ones
DetermineSeverity(code) ==
  IF \E p \in CriticalPatterns : StartsWith(code, p) THEN "critical"
  ELSE IF \E p \in WarningPatterns : StartsWith(code, p) THEN "warning"
  ELSE "info"

\* the code lists _generate_diagnostic_hypotheses filters with
FuelSystemCodes == WarningPatterns
EmissionCodes == {<<"P", "0", "4", "2", "0">>, <<"P", "0", "4", "3", "0">>}
IsFuelCode(c) == c \in FuelSystemCodes
IsMisfireCode(c) == StartsWith(c, <<"P", "0", "3">>)
IsEmissionCode(c) == c \in EmissionCodes
IsEvapCode(c) == StartsWith(c, <<"P", "0", "4">>) /\ c \notin EmissionCodes

\* every entry of live_data, whatever its in_range
AllPresent(live) == {p \in LivePids : live[p] # "absent"}

\* the ids of all entries, the in_range test left out
OutOfRangeUnfiltered(live) == AllPresent(live)

\* out_of_range_params: the ids whose entry has in_range false
OutOfRange(live) == {p \in LivePids : live[p] = "out"}

Hypothesis(id, confidence, codes, params) ==
  [id |-> id, confidence |-> confidence, dtcs |-> codes, parameters |-> params]

\* _generate_diagnostic_hypotheses: the five tests in their order
Hypotheses(dtcs, live) ==
  LET fuel == SelectSeq(dtcs, IsFuelCode)
      misfire == SelectSeq(dtcs, IsMisfireCode)
      emission == SelectSeq(dtcs, IsEmissionCode)
      evap == SelectSeq(dtcs, IsEvapCode)
      params == OutOfRange(live)
      P0300 == <<"P", "0", "3", "0", "0">>
  IN (IF fuel # <<>>
        THEN <<Hypothesis("fuel_system",
                          IF Len(fuel) > 1 THEN "High" ELSE "Medium",
                          fuel, {})>>
        ELSE <<>>)
     \o (IF misfire # <<>>
           THEN <<Hypothesis("ignition_system",
                             IF \E i \in 1..Len(misfire) :
                                  Contains(misfire[i], P0300)
                               THEN "High" ELSE "Medium",
                             misfire, {})>>
           ELSE <<>>)
     \o (IF emission # <<>>
           THEN <<Hypothesis("emission_system", "High", emission, {})>>
           ELSE <<>>)
     \o (IF evap # <<>>
           THEN <<Hypothesis("evap_system", "Medium", evap, {})>>
           ELSE <<>>)
     \o (IF params # {}
           THEN <<Hypothesis("sensor_issues", "Medium", <<>>, params)>>
           ELSE <<>>)

\* the code list of the air-flow sensor test of _validate_diagnostic_data
MafCodes == {<<"P", "0", "1", "0", "0">>, <<"P", "0", "1", "0", "1">>,
             <<"P", "0", "1", "0", "2">>, <<"P", "0", "1", "0", "3">>}
IsMafCode(c) == c \in MafCodes

Note(id, params) == [id |-> id, parameters |-> params]

\* the note given only when a fuel code comes before a misfire code
FuelBeforeMisfire(dtcs) ==
  IF \E i, j \in 1..Len(dtcs) :
       i < j /\ IsFuelCode(dtcs[i]) /\ IsMisfireCode(dtcs[j])
    THEN <<Note("fuel_misfire", {})>>
    ELSE <<>>

\* fuel system codes with misfire codes
FuelMisfireNote(dtcs) ==
  IF SelectSeq(dtcs, IsFuelCode) # <<>> /\ SelectSeq(dtcs, IsMisfireCode) # <<>>
    THEN <<Note("fuel_misfire", {})>>
    ELSE <<>>

\* air-flow sensor codes with fuel trim codes
MafFuelNote(dtcs) ==
  IF SelectSeq(dtcs, IsMafCode) # <<>> /\ SelectSeq(dtcs, IsFuelCode) # <<>>
    THEN <<Note("maf_fuel", {})>>
    ELSE <<>>

\* out-of-range parameters, worded by whether there is any code
RangeNote(dtcs, live) ==
  IF OutOfRange(live) # {} /\ dtcs # <<>>
    THEN <<Note("range_explains_dtcs", OutOfRange(live))>>
  ELSE IF OutOfRange(live) # {}
    THEN <<Note("range", OutOfRange(live))>>
  ELSE <<>>

\* the banner given for every code the classifier would call critical,
\* whatever severity its dictionary carries
CriticalBannerByCode(dtcs, sev) ==
  IF \E i \in 1..Len(dtcs) : DetermineSeverity(dtcs[i]) = "critical"
    THEN <<Note("critical", {})>>
    ELSE <<>>

\* the banner looked for under the name of the severity, not its value
CriticalBannerByName(dtcs, sev) ==
  IF \E i \in 1..Len(dtcs) : sev[i] = "CRITICAL"
    THEN <<Note("critical", {})>>
    ELSE <<>>

\* critical codes: the dictionaries whose "severity" is "critical"
CriticalBanner(dtcs, sev) ==
  IF \E i \in 1..Len(dtcs) : sev[i] = "critical"
    THEN <<Note("critical", {})>>
    ELSE <<>>

\* _validate_diagnostic_data: the four tests in their order
Validate(dtcs, sev, live) ==
  FuelMisfireNote(dtcs) \o MafFuelNote(dtcs) \o RangeNote(dtcs, live)
    \o CriticalBanner(dtcs, sev)

\* read_stored_dtcs: every code read gets its severity
ClassifyDtcs ==
  /\ eng.phase = "input"
  /\ eng' = [eng EXCEPT !.phase = "classified",
                        !.sev = [i \in 1..Len(eng.dtcs) |->
                                   DetermineSeverity(eng.dtcs[i])]]
  /\ UNCHANGED <<static, mgr, hst, tk, orphans, last, svcVars, dataVars>>

\* _generate_diagnostic_hypotheses(obd_data)
GenerateHypotheses ==
  /\ eng.phase = "input"
  /\ eng' = [eng EXCEPT !.phase = "diagnosed",
                        !.hyps = Hypotheses(eng.dtcs, eng.live)]
  /\ UNCHANGED <<static, mgr, hst, tk, orphans, last, svcVars, dataVars>>

EngInit ==
  /\ kind = "base"
  /\ taskImpl = "C"
  /\ autoReconnect = FALSE
  /\ conn = 0
  /\ flag = FALSE
  /\ cmds = FALSE
  /\ cfg = DefaultCfgRetries
  /\ lock = 0
  /\ kaTask = 0
  /\ monTask = 0
  /\ hst = [h \in Handles |-> "free"]
  /\ tk = [t \in Tasks |-> IF t \in Callers THEN IdleCaller ELSE FreeTask]
  /\ orphans = {}
  /\ last = Quiet
  /\ ServicesIdle
  /\ DataIdle
  /\ \E d \in DtcLists, l \in LiveMaps :
        eng = [NoDiagnosis EXCEPT !.dtcs = d, !.live = l]

\* _prepare_enhanced_query on the data get_obd_diagnostic_data collected
\* from a connected manager: the hypotheses, then the validation warnings,
\* when there is any code or any live reading
PrepareEnhancedQuery ==
  /\ eng.phase = "classified"
  /\ eng.dtcs # <<>> \/ AllPresent(eng.live) # {}
  /\ eng' = [eng EXCEPT !.phase = "enhanced",
                        !.hyps = Hypotheses(eng.dtcs, eng.live),
                        !.warns = Validate(eng.dtcs, eng.sev, eng.live)]
  /\ UNCHANGED <<static, mgr, hst, tk, orphans, last, svcVars, dataVars>>

EngNext == ClassifyDtcs \/ GenerateHypotheses \/ PrepareEnhancedQuery

\* _validate_diagnostic_data(obd_data) on dictionaries of any severity
ValidateDiagnosticData ==
  /\ eng.phase = "input"
  /\ eng' = [eng EXCEPT !.phase = "validated",
                        !.warns = Validate(eng.dtcs, eng.sev, eng.live)]
  /\ UNCHANGED <<static, mgr, hst, tk, orphans, last, svcVars, dataVars>>

ValInit ==
  /\ kind = "base"
  /\ taskImpl = "C"
  /\ autoReconnect = FALSE
  /\ conn = 0
  /\ flag = FALSE
  /\ cmds = FALSE
  /\ cfg = DefaultCfgRetries
  /\ lock = 0
  /\ kaTask = 0
  /\ monTask = 0
  /\ hst = [h \in Handles |-> "free"]
  /\ tk = [t \in Tasks |-> IF t \in Callers THEN IdleCaller ELSE FreeTask]
  /\ orphans = {}
  /\ last = Quiet
  /\ ServicesIdle
  /\ DataIdle
  /\ \E d \in ValDtcLists, l \in LiveMaps :
        \E s \in [1..Len(d) -> Severities] :
           eng = [NoDiagnosis EXCEPT !.dtcs = d, !.sev = s, !.live = l]

ValNext == ValidateDiagnosticData

ValSpec == ValInit /\ [][ValNext]_vars

EngSpec == EngInit /\ [][EngNext]_vars

\* ------------------------------------------------------------- claims

Persistent == kind = "enhanced"

\* the last thing any caller did was a connect that succeeded
Unattended == \A c \in Callers : tk[c].pc = "idle" /\ tk[c].prev = "connected"

MonitorAlive == \E x \in Loops : tk[x].kind = "mon"

\* C1: a connect() that finds the manager already connected returns success,
\* opens no transport and leaves the handle it found in place, whatever
\* config override it was given
C1_ConnectWhenConnected ==
  \A c \in Callers :
    last[c].op = "connect" /\ last[c].pre =>
      last[c].ok /\ last[c].opens = 0 /\ conn = last[c].pconn

\* C2: when disconnect() has returned the manager is Disconnected:
\* is_connected is false, no handle and no supported-command list is kept
C2_DisconnectedAfterDisconnect ==
  \A c \in Callers :
    Persistent /\ last[c].op = "disconnect" =>
      ~IsConnected /\ ~flag /\ conn = 0 /\ ~cmds

\* C3: in the step in which disconnect() closes the handle, every loop task
\* has ended and no keep-alive command is still running on that handle
C3_NoLoopOutlivesHandle ==
  [][\A h \in Handles :
       Persistent /\ conn = h /\ conn' = 0 =>
         /\ \A x \in Loops : tk'[x].pc = "done"
         /\ ~\E o \in orphans' : o.what = "ka" /\ o.h = h]_vars

\* C4: a disconnect() that closed the handle returns success, whatever the
\* close did
C4_DisconnectSwallowsCloseError ==
  \A c \in Callers :
    last[c].op = "disconnect" /\ last[c].closes > 0 => last[c].ok

\* C5: a disconnect() that follows another disconnect() and finds the manager
\* not connected returns success and issues no close
C5_SecondDisconnectNoOp ==
  \A c \in Callers :
    Persistent /\ last[c].op = "disconnect" /\ last[c].seq2 /\ ~last[c].pre =>
      last[c].ok /\ last[c].closes = 0

\* C6: while auto-reconnect is enabled, the connection is lost and no caller
\* acts, the monitor loop stays alive until the manager is connected again
C6_MonitorBringsBack ==
  [][Persistent /\ autoReconnect /\ Unattended /\ Unattended'
       /\ MonitorAlive /\ ~IsConnected
     => MonitorAlive' \/ IsConnected']_vars

\* C7: query() on a manager that is not connected, auto-reconnect disabled,
\* returns failure with the error "Not connected to OBD adapter" and has
\* opened nothing and sent nothing
C7_QueryNotConnected ==
  \A c \in Callers :
    last[c].op = "query" /\ ~last[c].pre /\ ~autoReconnect =>
      /\ ~last[c].ok
      /\ last[c].err = ErrNotConnected
      /\ last[c].opens = 0
      /\ last[c].sends = 0

\* C8: query() never raises: what it hands back is always a result value
C8_QueryNeverRaises ==
  \A c \in Callers : last[c].op = "query" => last[c].err # RaisedAttribute

\* C9: the step in which a query command ends in a transport I/O error marks
\* the manager not connected and closes the handle; with auto-reconnect it
\* goes on to reconnect for the one retry or gives up, without it it hands
\* the failure back to the caller
C9_QueryIoError ==
  [][\A c \in Callers :
       /\ Persistent
       /\ tk[c].pc = "q_exec"
       /\ (tk'[c].out = "io" \/ last'[c].err = ErrIO)
       => /\ ~flag'
          /\ conn' # tk[c].h
          /\ hst'[tk[c].h] \notin {"up", "lost"}
          /\ autoReconnect => tk'[c].re \/ last'[c].op = "query"
          /\ ~autoReconnect => last'[c].op = "query" /\ ~last'[c].ok]_vars

\* C10: a connect() opens the transport at most max_retries times, the value
\* of the config in effect, and sleeps retry_delay times the number of the
\* attempt that failed before the next one
C10_ConnectRetries ==
  \A c \in Callers :
    Persistent /\ tk[c].op = "connect" =>
      /\ tk[c].opens <= cfg
      /\ tk[c].pc = "cn_backoff" => tk[c].delay = tk[c].opens

\* C11: a connect() whose open attempts have all failed returns failure with
\* the error of the last attempt and leaves the manager Disconnected: not
\* connected, no handle kept, no background loop running
C11_ConnectExhausted ==
  \A c \in Callers :
    Persistent /\ last[c].op = "connect" /\ ~last[c].ok
      /\ last[c].opens = EnhMaxRetries =>
        /\ last[c].err \in {ErrOpen, ErrEstablish}
        /\ ~IsConnected
        /\ conn = 0
        /\ \A x \in Loops : ~LoopLive(tk, x)

\* C12: a connect() given a config with an invalid port, baud rate or
\* protocol is rejected: it returns failure, and at no point of the call has
\* the transport been opened
C12_InvalidConfigRejected ==
  \A c \in Callers :
    /\ tk[c].op = "connect" /\ tk[c].bad => tk[c].opens = 0
    /\ last[c].op = "connect" /\ last[c].bad =>
         ~last[c].ok /\ last[c].opens = 0

\* commands handed to the thread pool on handle h and not yet returned
Outstanding(h) ==
  Cardinality({t \in Tasks : tk[t].h = h /\ tk[t].pc \in {"k_exec", "q_exec"}})
    + Cardinality({o \in orphans : o.h = h /\ o.what # "open"})

\* C13: the transport is a single-consumer half-duplex channel: on every
\* handle at most one command (a query, a keep-alive) is outstanding at any
\* time
C13_SingleConsumer ==
  \A h \in Handles : Outstanding(h) <= 1

\* the fields the snapshot of get_connection_info() is specified to have
SnapshotFields ==
  {"connected", "port", "protocol", "supported_commands", "config"}

\* C14: get_connection_info() hands back the same fixed set of fields,
\* connected, port, protocol, supported-command count and config, in every
\* state of the manager
C14_SnapshotFixedShape ==
  \A c \in Callers : last[c].op = "info" => last[c].keys = SnapshotFields

\* C15: read_multiple_parameters(ids) hands back a map whose keys are exactly
\* the requested ids whose read_parameter returned a reading; an id without
\* a command or whose query failed is left out
C15_ReadMultipleKeys ==
  slast.op = "multi" =>
    /\ slast.keys = slast.expect
    /\ slast.keys \subseteq slast.req

\* a batch of a mapped and an unmapped id came back with the mapped one only
C15_Witness ==
  /\ slast.op = "multi"
  /\ slast.req = {"0C", "ZZ"}
  /\ slast.keys = {"0C"}

\* C16: a reader that finds the manager not connected hands back an empty
\* result (no codes, no readings, no vehicle info) and has issued no query
C16_EmptyWhenNotConnected ==
  /\ slast.op \in {"dtc", "multi", "vinfo"} /\ ~slast.saw =>
       slast.empty /\ slast.asked = 0
  /\ \A o \in Owners, k \in Slots :
       rd[o][k].st \in {"query", "done"} /\ ~rd[o][k].saw =>
         rd[o][k].st = "done" /\ ~rd[o][k].asked /\ ~rd[o][k].val

\* a batch of two ids has come back from a manager that was not connected
C16_Witness ==
  /\ slast.op = "multi"
  /\ ~slast.saw
  /\ slast.req = {"0C", "ZZ"}
  /\ slast.empty

\* C17: once stop_monitoring() has returned the monitoring loop is over: it
\* is not in the callback or about to call it, and no read it started has
\* a query still in flight against the manager
C17_StopEndsMonitoring ==
  mon.stopped =>
    /\ mon.pc = "none"
    /\ \A k \in Slots : rd["loop"][k].st \notin {"query", "orphan"}

\* the code families of the severity table, as sets of five-character codes
CriticalFamily(c) ==
  \/ SubSeq(c, 1, 4) = <<"P", "0", "3", "0">>
  \/ c \in {<<"P", "0", "4", "2", "0">>, <<"P", "0", "4", "3", "0">>}
WarningFamily(c) ==
  /\ SubSeq(c, 1, 4) = <<"P", "0", "1", "7">>
  /\ c[5] \in {"1", "2", "4", "5"}

\* C18: the severity of a code depends on the code alone: Critical for a
\* code of a critical family (P030x, P0420, P0430), Warning for a code of a
\* warning family (P0171, P0172, P0174, P0175), Info for every other code
C18_SeverityByFamily ==
  eng.phase = "classified" =>
    \A i \in 1..Len(eng.dtcs) :
      eng.sev[i] = IF CriticalFamily(eng.dtcs[i]) THEN "critical"
                   ELSE IF WarningFamily(eng.dtcs[i]) THEN "warning"
                   ELSE "info"

\* a cylinder misfire code and a lean code have been classified
C18_Witness ==
  /\ eng.phase = "classified"
  /\ eng.dtcs = << <<"P", "0", "3", "0", "1">>, <<"P", "0", "1", "7", "1">> >>
  /\ eng.sev = <<"critical", "warning">>

\* the hypotheses of the diagnosis with a given id
WithId(id) == {i \in 1..Len(eng.hyps) : eng.hyps[i].id = id}

\* one family of codes, n of which are in the input: exactly one hypothesis
\* when n is positive, none otherwise, High with more than one code or when
\* the family is certain in itself, Medium otherwise
FamilyRule(id, n, certain) ==
  /\ Cardinality(WithId(id)) = IF n > 0 THEN 1 ELSE 0
  /\ \A i \in WithId(id) :
       eng.hyps[i].confidence = IF n > 1 \/ certain THEN "High" ELSE "Medium"

\* C19: one hypothesis per matched code family (fuel-trim, misfire,
\* catalyst, evaporative); its confidence is High when more than one code of
\* the family is present or the family is the catalyst family, Medium
\* otherwise
C19_HypothesisPerFamily ==
  eng.phase = "diagnosed" =>
    /\ FamilyRule("fuel_system",
                  Len(SelectSeq(eng.dtcs, IsFuelCode)), FALSE)
    /\ FamilyRule("ignition_system",
                  Len(SelectSeq(eng.dtcs, IsMisfireCode)), FALSE)
    /\ FamilyRule("emission_system",
                  Len(SelectSeq(eng.dtcs, IsEmissionCode)), TRUE)
    /\ FamilyRule("evap_system",
                  Len(SelectSeq(eng.dtcs, IsEvapCode)), FALSE)

\* C20: the sensor hypothesis is emitted exactly when some live reading has
\* in_range false, whatever the codes are, and it lists exactly the ids of
\* the readings that are out of range
C20_SensorHypothesis ==
  eng.phase = "diagnosed" =>
    LET out == {p \in LivePids : eng.live[p] = "out"}
    IN /\ Cardinality(WithId("sensor_issues")) = IF out # {} THEN 1 ELSE 0
       /\ \A i \in WithId("sensor_issues") : eng.hyps[i].parameters = out

\* no code at all, one reading in range and one out of range: the sensor
\* hypothesis is the only one, with the one id
C20_Witness ==
  /\ eng.phase = "diagnosed"
  /\ eng.dtcs = <<>>
  /\ eng.live = [p \in LivePids |-> IF p = "0C" THEN "out" ELSE "in"]
  /\ Len(eng.hyps) = 1
  /\ eng.hyps[1].id = "sensor_issues"
  /\ eng.hyps[1].parameters = {"0C"}

\* the positions of the warnings of one id
Noted(id) == {i \in 1..Len(eng.warns) : eng.warns[i].id = id}

\* C21: the critical banner is among the warnings exactly when some trouble
\* code of the input carries the severity "critical", there is one banner at
\* most, and it is the last warning, after the correlation notes and the
\* out-of-range note
C21_CriticalBanner ==
  eng.phase = "validated" =>
    /\ (Noted("critical") # {}) <=>
         (\E i \in 1..Len(eng.dtcs) : eng.sev[i] = "critical")
    /\ \A i \in Noted("critical") : i = Len(eng.warns)

\* a fuel code and a misfire code, the fuel code marked critical, one reading
\* out of range: correlation note, out-of-range note, banner, in this order
C21_Witness ==
  /\ eng.phase = "validated"
  /\ eng.dtcs = << <<"P", "0", "1", "7", "1">>, <<"P", "0", "3", "0", "1">> >>
  /\ eng.sev = <<"critical", "info">>
  /\ eng.live["05"] = "out"
  /\ Len(eng.warns) = 3
  /\ eng.warns[1].id = "fuel_misfire"
  /\ eng.warns[2].id = "range_explains_dtcs"
  /\ eng.warns[3].id = "critical"

\* C22: for the codes P0171 and P0300, classified by _determine_severity,
\* with one live reading out of range, the engine gives a fuel-system, a
\* misfire and a sensor hypothesis, the correlation warning and an
\* out-of-range warning, and no critical banner
C22_ScenarioNoBanner ==
  (/\ eng.phase = "enhanced"
   /\ Len(eng.dtcs) = 2
   /\ {eng.dtcs[1], eng.dtcs[2]} =
        {<<"P", "0", "1", "7", "1">>, <<"P", "0", "3", "0", "0">>}
   /\ Cardinality(OutOfRange(eng.live)) = 1)
  => /\ WithId("fuel_system") # {}
     /\ WithId("ignition_system") # {}
     /\ WithId("sensor_issues") # {}
     /\ Noted("fuel_misfire") # {}
     /\ Noted("range_explains_dtcs") # {}
     /\ Noted("critical") = {}

\* the misfire family as the validation reads it: the codes P03xx
MisfireFamily(c) == SubSeq(c, 1, 3) = <<"P", "0", "3">>

\* C23: the fuel/misfire correlation warning is given, once, for every list
\* of codes holding at least one fuel-trim code and at least one misfire
\* code, in whatever order, and for no list that lacks one of the families
C23_CorrelationAnyOrder ==
  eng.phase = "validated" =>
    Cardinality(Noted("fuel_misfire")) =
      IF /\ \E i \in 1..Len(eng.dtcs) : WarningFamily(eng.dtcs[i])
         /\ \E i \in 1..Len(eng.dtcs) : MisfireFamily(eng.dtcs[i])
        THEN 1 ELSE 0

\* the misfire code first, the fuel-trim code second: the warning is given
C23_Witness ==
  /\ eng.phase = "validated"
  /\ eng.dtcs = << <<"P", "0", "3", "0", "1">>, <<"P", "0", "1", "7", "1">> >>
  /\ Noted("fuel_misfire") = {1}

\* ------------------------------------- obd_models.py, LiveDataReading

\* the manager a specification of the data classes leaves alone
ManagerIdle ==
  /\ kind = "base"
  /\ taskImpl = "C"
  /\ autoReconnect = FALSE
  /\ conn = 0
  /\ flag = FALSE
  /\ cmds = FALSE
  /\ cfg = DefaultCfgRetries
  /\ lock = 0
  /\ kaTask = 0
  /\ monTask = 0
  /\ hst = [h \in Handles |-> "free"]
  /\ tk = [t \in Tasks |-> IF t \in Callers THEN IdleCaller ELSE FreeTask]
  /\ orphans = {}
  /\ last = Quiet

\* the values of a reading and of its bounds; a bound may be None
Values == 0..MaxValue
Limits == Values \cup {None}

\* the test with the bounds applied only when both are given
WithinBothBounds(value, min_value, max_value) ==
  IF min_value # None /\ max_value # None
    THEN min_value <= value /\ value <= max_value
    ELSE TRUE

\* LiveDataReading.is_within_range: each bound that is given is applied
IsWithinRange(value, min_value, max_value) ==
  IF min_value # None /\ value < min_value THEN FALSE
  ELSE IF max_value # None /\ value > max_value THEN FALSE
  ELSE TRUE

\* reading.is_within_range is read
ReadIsWithinRange ==
  /\ reading.phase = "made"
  /\ reading' = [reading EXCEPT
                   !.phase = "read",
                   !.is_within_range =
                      IsWithinRange(reading.value, reading.min_value,
                                    reading.max_value)]
  /\ UNCHANGED <<static, mgr, hst, tk, orphans, last, svcVars, eng,
                 vinfo, session, mock>>

\* reading.value = v, as test_live_data_reading does
SetValue(v) ==
  /\ reading.phase = "read"
  /\ reading.value # v
  /\ reading' = [reading EXCEPT !.phase = "made", !.value = v]
  /\ UNCHANGED <<static, mgr, hst, tk, orphans, last, svcVars, eng,
                 vinfo, session, mock>>

\* LiveDataReading(value=, min_value=, max_value=)
RangeInit ==
  /\ ManagerIdle
  /\ ServicesIdle
  /\ EngineIdle
  /\ vinfo = NoVin
  /\ session = NoSession
  /\ mock = NoMock
  /\ \E v \in Values, lo \in Limits, hi \in Limits :
        reading = [NoReading EXCEPT !.phase = "made", !.value = v,
                                    !.min_value = lo, !.max_value = hi]

RangeNext == ReadIsWithinRange \/ \E v \in Values : SetValue(v)

RangeSpec == RangeInit /\ [][RangeNext]_vars

\* C24: in_range is true exactly when min <= value <= max if both bounds
\* are given, and true whenever a bound is absent
C24_InRangeBothBounds ==
  reading.phase = "read" =>
    reading.is_within_range =
      IF reading.min_value # None /\ reading.max_value # None
        THEN reading.min_value <= reading.value
             /\ reading.value <= reading.max_value
        ELSE TRUE

\* C24, amended: in_range is false exactly when a lower bound is given and
\* the value is below it, or an upper bound is given and the value is above
\* it; a bound that is absent is not applied, the other one still is
C24_InRangeEachBound ==
  reading.phase = "read" =>
    reading.is_within_range =
      (/\ reading.min_value = None \/ reading.min_value <= reading.value
       /\ reading.max_value = None \/ reading.value <= reading.max_value)

\* a lower bound alone, the value below it: not in range
C24_Witness ==
  /\ reading.phase = "read"
  /\ reading.min_value = 1
  /\ reading.max_value = None
  /\ reading.value = 0
  /\ ~reading.is_within_range

\* C22, amended: for the codes P0171 and P0300, classified by
\* _determine_severity, with one live reading out of range, the engine gives
\* a fuel-system, a misfire and a sensor hypothesis, the correlation warning,
\* an out-of-range warning, and the critical banner as well, P0300 being of
\* the critical family
C22_ScenarioWithBanner ==
  (/\ eng.phase = "enhanced"
   /\ Len(eng.dtcs) = 2
   /\ {eng.dtcs[1], eng.dtcs[2]} =
        {<<"P", "0", "1", "7", "1">>, <<"P", "0", "3", "0", "0">>}
   /\ Cardinality(OutOfRange(eng.live)) = 1)
  => /\ WithId("fuel_system") # {}
     /\ WithId("ignition_system") # {}
     /\ WithId("sensor_issues") # {}
     /\ Noted("fuel_misfire") = {1}
     /\ Noted("range_explains_dtcs") = {2}
     /\ Noted("critical") = {3}

\* the scenario itself: P0171 then P0300, the coolant temperature out of
\* range, three hypotheses and three warnings
C22_Witness ==
  /\ eng.phase = "enhanced"
  /\ eng.dtcs = << <<"P", "0", "1", "7", "1">>, <<"P", "0", "3", "0", "0">> >>
  /\ eng.sev = <<"warning", "critical">>
  /\ eng.live = [p \in LivePids |-> IF p = "05" THEN "out" ELSE "absent"]
  /\ Len(eng.hyps) = 3
  /\ Len(eng.warns) = 3

\* -------------------------- obd_services.py, VehicleInfoService._parse_vin

\* a dictionary literal as the list of its key: value items; a key written
\* twice keeps the value written last
Lookup(items, key, default) ==
  LET at == {i \in 1..Len(items) : items[i][1] = key}
  IN IF at = {} THEN default
     ELSE items[CHOOSE i \in at : \A j \in at : j <= i][2]

\* year_map of _decode_year_from_vin, as written
YearItems == <<
  <<"A", 1980>>, <<"B", 1981>>, <<"C", 1982>>, <<"D", 1983>>,
  <<"E", 1984>>, <<"F", 1985>>, <<"G", 1986>>, <<"H", 1987>>,
  <<"J", 1988>>, <<"K", 1989>>, <<"L", 1990>>, <<"M", 1991>>,
  <<"N", 1992>>, <<"P", 1993>>, <<"R", 1994>>, <<"S", 1995>>,
  <<"T", 1996>>, <<"V", 1997>>, <<"W", 1998>>, <<"X", 1999>>,
  <<"Y", 2000>>, <<"1", 2001>>, <<"2", 2002>>, <<"3", 2003>>,
  <<"4", 2004>>, <<"5", 2005>>, <<"6", 2006>>, <<"7", 2007>>,
  <<"8", 2008>>, <<"9", 2009>>, <<"A", 2010>>, <<"B", 2011>>,
  <<"C", 2012>>, <<"D", 2013>>, <<"E", 2014>>, <<"F", 2015>>,
  <<"G", 2016>>, <<"H", 2017>>, <<"J", 2018>>, <<"K", 2019>>,
  <<"L", 2020>>, <<"M", 2021>>, <<"N", 2022>>, <<"P", 2023>>,
  <<"R", 2024>>, <<"S", 2025>>
>>

\* wmi_map of _decode_make_from_wmi, as written
WmiItems == <<
  <<<<"1", "G", "1">>, "Chevrolet">>, <<<<"1", "G", "6">>, "Cadillac">>,
  <<<<"1", "G", "T">>, "GMC">>, <<<<"1", "F", "T">>, "Ford">>,
  <<<<"1", "F", "A">>, "Ford">>, <<<<"1", "F", "B">>, "Ford">>,
  <<<<"2", "H", "G">>, "Honda">>, <<<<"2", "H", "K">>, "Honda">>,
  <<<<"4", "T", "1">>, "Toyota">>, <<<<"4", "T", "3">>, "Lexus">>,
  <<<<"W", "B", "A">>, "BMW">>, <<<<"W", "B", "S">>, "BMW">>,
  <<<<"W", "A", "U">>, "Audi">>, <<<<"W", "V", "W">>, "Volkswagen">>,
  <<<<"J", "H", "M">>, "Honda">>, <<<<"J", "T", "D">>, "Toyota">>,
  <<<<"K", "N", "A">>, "Kia">>, <<<<"K", "M", "H">>, "Hyundai">>
>>

\* str.upper() on the characters the inputs are made of
UpperOf(c) ==
  CASE c = "a" -> "A" [] c = "h" -> "H" [] c = "j" -> "J" [] c = "m" -> "M"
    [] OTHER -> c
Upper(s) == [i \in 1..Len(s) |-> UpperOf(s[i])]

\* _decode_year_from_vin(year_code)
DecodeYearFromVin(year_code) == Lookup(YearItems, UpperOf(year_code), None)

\* _decode_make_from_wmi(wmi)
DecodeMakeFromWmi(wmi) == Lookup(WmiItems, Upper(wmi), "None")

Parsed(make, model, year) == [make |-> make, model |-> model, year |-> year]

\* the parse with no test of the length, for a VIN long enough to index
ParseVinAnyLength(vin) ==
  IF Len(vin) < VinYearPos
    THEN Parsed("None", "None", None)
    ELSE Parsed(DecodeMakeFromWmi(SubSeq(vin, 1, 3)), "None",
                DecodeYearFromVin(vin[VinYearPos]))

\* _parse_vin(vin): (make, model, year)
ParseVin(vin) ==
  IF vin = <<>> \/ Len(vin) # VinLength
    THEN Parsed("None", "None", None)
    ELSE Parsed(DecodeMakeFromWmi(SubSeq(vin, 1, 3)), "None",
                DecodeYearFromVin(vin[VinYearPos]))

\* the identifiers and year codes the VINs given to the parse are made of
WmiInputs == {<<"1", "G", "1">>, <<"j", "h", "m">>, <<"W", "B", "A">>,
              <<"Z", "Z", "Z">>}
YearInputs == {"A", "a", "Y", "1", "Q"}

\* a VIN of n characters: the identifier, six more, the year code, the rest
VinOf(wmi, year_code, n) ==
  SubSeq(wmi \o [i \in 1..(VinYearPos - 4) |-> "0"] \o <<year_code>>
             \o [i \in 1..(MaxVinLen - VinYearPos) |-> "0"], 1, n)

Vins == {VinOf(w, y, n) : w \in WmiInputs, y \in YearInputs, n \in 0..MaxVinLen}

\* make, model, year = self._parse_vin(vin)
ParseVinCall ==
  /\ vinfo.phase = "given"
  /\ LET r == ParseVin(vinfo.vin)
     IN vinfo' = [vinfo EXCEPT !.phase = "parsed", !.make = r.make,
                               !.model = r.model, !.year = r.year]
  /\ UNCHANGED <<static, mgr, hst, tk, orphans, last, svcVars, eng,
                 reading, session, mock>>

VinInit ==
  /\ ManagerIdle
  /\ ServicesIdle
  /\ EngineIdle
  /\ reading = NoReading
  /\ session = NoSession
  /\ mock = NoMock
  /\ \E v \in Vins : vinfo = [NoVin EXCEPT !.phase = "given", !.vin = v]

VinNext == ParseVinCall

VinSpec == VinInit /\ [][VinNext]_vars

\* the tables of the claim on the characters the inputs are made of, in
\* upper case
MakeOfWmi(w) ==
  CASE w = <<"1", "G", "1">> -> "Chevrolet"
    [] w = <<"J", "H", "M">> -> "Honda"
    [] w = <<"W", "B", "A">> -> "BMW"
    [] OTHER -> "None"
YearOfCode(c) ==
  CASE c = "A" -> 2010 [] c = "Y" -> 2000 [] c = "1" -> 2001 [] OTHER -> None

\* C25: for a VIN of 17 characters make and year are the table entries of
\* positions 1-3 and of position 10, taken in upper case, and the model is
\* unset; for a VIN of any other length make, model and year are all unset
C25_VinDecoding ==
  vinfo.phase = "parsed" =>
    IF Len(vinfo.vin) = 17
      THEN /\ vinfo.make = MakeOfWmi(Upper(SubSeq(vinfo.vin, 1, 3)))
           /\ vinfo.year = YearOfCode(UpperOf(vinfo.vin[10]))
           /\ vinfo.model = "None"
      ELSE vinfo.make = "None" /\ vinfo.model = "None" /\ vinfo.year = None

\* a VIN of 17 characters in lower case: Honda, 2010
C25_Witness ==
  /\ vinfo.phase = "parsed"
  /\ Len(vinfo.vin) = 17
  /\ SubSeq(vinfo.vin, 1, 3) = <<"j", "h", "m">>
  /\ vinfo.vin[10] = "a"
  /\ vinfo.make = "Honda"
  /\ vinfo.year = 2010

\* ------------------------------------- obd_models.py, DiagnosticSession

\* what a caller adds to a session: codes and parameter ids
SessionDtcs == {"P0171", "P0300"}
SessionReadings == {"0C", "05"}

\* a call on the session reads the clock at a later time than the one before
Tick(s) == [s EXCEPT !.now = s.now + 1]

\* add_dtc(dtc)
AddDtc(d) ==
  /\ session.made
  /\ session.now < MaxCalls
  /\ session' = [Tick(session) EXCEPT
                   !.dtcs_found = Append(session.dtcs_found, d)]
  /\ UNCHANGED <<static, mgr, hst, tk, orphans, last, svcVars, eng,
                 reading, vinfo, mock>>

\* add_live_data(reading)
AddLiveData(r) ==
  /\ session.made
  /\ session.now < MaxCalls
  /\ session' = [Tick(session) EXCEPT
                   !.live_data_readings =
                      Append(session.live_data_readings, r)]
  /\ UNCHANGED <<static, mgr, hst, tk, orphans, last, svcVars, eng,
                 reading, vinfo, mock>>

\* end_session(): self.end_time = datetime.now()
EndSession ==
  /\ session.made
  /\ session.now < MaxCalls
  /\ session' = [Tick(session) EXCEPT !.end_time = session.now + 1]
  /\ UNCHANGED <<static, mgr, hst, tk, orphans, last, svcVars, eng,
                 reading, vinfo, mock>>

\* DiagnosticSession(session_id=...): __post_init__ stamps the start time and
\* makes the two lists
SessionInit ==
  /\ ManagerIdle
  /\ ServicesIdle
  /\ EngineIdle
  /\ reading = NoReading
  /\ vinfo = NoVin
  /\ mock = NoMock
  /\ session = [NoSession EXCEPT !.made = TRUE, !.start_time = 0]

SessionNext ==
  \/ \E d \in SessionDtcs : AddDtc(d)
  \/ \E r \in SessionReadings : AddLiveData(r)
  \/ EndSession

SessionSpec == SessionInit /\ [][SessionNext]_vars

IsPrefix(s, t) == Len(s) <= Len(t) /\ SubSeq(t, 1, Len(s)) = s

\* C29: a session is append-only, and once end_session() has been called no
\* later add_dtc, add_live_data or end_session changes the accumulated lists
\* or the end time
C29_FrozenOnceClosed ==
  [][/\ IsPrefix(session.dtcs_found, session'.dtcs_found)
     /\ IsPrefix(session.live_data_readings, session'.live_data_readings)
     /\ session.end_time # None =>
          /\ session'.dtcs_found = session.dtcs_found
          /\ session'.live_data_readings = session.live_data_readings
          /\ session'.end_time = session.end_time]_vars

\* --------------------------------------------- MockOBDInterfaceManager
\* obd_interface.py: a subclass of the base manager, whose is_connected,
\* disconnect and (second) query it inherits; enhanced_obd_interface.py: a
\* class of its own, with no load_simulation_data

MockClasses == {"base", "enhanced"}
MockCommands == {"GET_DTC", "RPM", "SPEED"}

\* is_connected of the mock
MockIsConnected(m) ==
  IF m.cls = "base" THEN m.flag /\ m.connection ELSE m.flag

\* the mock after a disconnect() that leaves the connection as it is
MockDisconnectedKeeps(m) == [m EXCEPT !.linked = FALSE]

\* the mock after disconnect()
MockDisconnected(m) ==
  [m EXCEPT !.flag = FALSE, !.connection = FALSE, !.linked = FALSE]

\* the mock after connect()
MockConnected(m) ==
  [m EXCEPT !.flag = TRUE, !.connection = (m.cls = "base"),
            !.linked = TRUE]

\* _dtc_descriptions, the entries of the codes used here
DtcDescriptions == <<
  << <<"P", "0", "1", "7", "1">>, "System Too Lean (Bank 1)" >>,
  << <<"P", "0", "1", "7", "4">>, "System Too Lean (Bank 2)" >>,
  << <<"P", "0", "3", "0", "0">>,
     "Random/Multiple Cylinder Misfire Detected" >>,
  << <<"P", "0", "3", "0", "1">>, "Cylinder 1 Misfire Detected" >>,
  << <<"P", "0", "4", "2", "0">>,
     "Catalyst System Efficiency Below Threshold (Bank 1)" >> >>

\* DTCInfo(code, description, severity) as read_stored_dtcs builds it
DtcInfo(code) ==
  [code |-> code,
   description |-> Lookup(DtcDescriptions, code, "Unknown DTC"),
   severity |-> DetermineSeverity(code)]

\* the RPM answer that is the built-in value whatever was injected
RpmBuiltIn(m) ==
  [NoMockResult EXCEPT !.success = TRUE, !.value = RpmDefault,
                       !.unit = "rpm"]

\* the RPM answer: the simulation's "0C" value when it has one, else
\* _mock_live_data["RPM"]
RpmAnswer(m) ==
  [NoMockResult EXCEPT
     !.success = TRUE,
     !.value = IF m.cls = "base" /\ m.sim.given /\ m.sim.obd_data
                  /\ m.sim.rpm # None
                 THEN m.sim.rpm ELSE m.rpm,
     !.unit = "rpm"]

\* the trouble code answer: (code, "") tuples of the simulation's "dtcs"
\* (none when it has no such key), else the strings of _mock_dtcs
DtcAnswer(m) ==
  IF m.cls = "base" /\ m.sim.given /\ m.sim.obd_data
    THEN [NoMockResult EXCEPT !.success = TRUE, !.codes = m.sim.dtcs,
                              !.tuples = TRUE]
    ELSE [NoMockResult EXCEPT !.success = TRUE, !.codes = m.mock_dtcs,
                              !.tuples = FALSE]

\* query(command) of the mock
MockQueryAnswer(m, cmd) ==
  IF ~MockIsConnected(m)
    THEN [NoMockResult EXCEPT !.error = ErrNotConnectedMock]
  ELSE IF cmd = "GET_DTC" THEN DtcAnswer(m)
  ELSE IF cmd = "RPM" THEN RpmAnswer(m)
  ELSE [NoMockResult EXCEPT !.success = TRUE, !.value = 0, !.unit = "km/h"]

\* read_stored_dtcs over the mock: the elements of the answer that are
\* tuples of two or more become DTCInfo, the others are passed over
StoredDtcs(m) ==
  LET answer == MockQueryAnswer(m, "GET_DTC")
  IN IF ~MockIsConnected(m) \/ ~answer.success \/ ~answer.tuples
       THEN <<>>
       ELSE [i \in 1..Len(answer.codes) |-> DtcInfo(answer.codes[i])]

MockFrame ==
  UNCHANGED <<static, mgr, hst, tk, orphans, last, svcVars, eng,
              reading, vinfo, session>>

\* connect()
MockConnect ==
  /\ mock.made
  /\ mock' = [MockConnected(mock) EXCEPT
                !.res = [NoMockResult EXCEPT !.op = "connect",
                                             !.success = TRUE,
                                             !.protocol = "mock_protocol"]]
  /\ MockFrame

\* disconnect()
MockDisconnect ==
  /\ mock.made
  /\ mock' = [MockDisconnected(mock) EXCEPT
                !.res = [NoMockResult EXCEPT !.op = "disconnect",
                                             !.success = TRUE]]
  /\ MockFrame

\* load_simulation_data(simulation_data)
LoadSimulationData(sim) ==
  /\ mock.made
  /\ mock.cls = "base"
  /\ mock' = [mock EXCEPT
                !.sim = sim,
                !.mock_dtcs = IF sim.obd_data /\ sim.has_dtcs
                                THEN sim.dtcs ELSE mock.mock_dtcs,
                !.rpm = IF sim.obd_data /\ sim.rpm # None
                          THEN sim.rpm ELSE mock.rpm,
                !.injected = IF sim.obd_data /\ sim.rpm # None
                               THEN sim.rpm ELSE mock.injected,
                !.res = [NoMockResult EXCEPT !.op = "load"]]
  /\ MockFrame

\* query(command)
MockQuery(cmd) ==
  /\ mock.made
  /\ mock' = [mock EXCEPT
                !.res = [MockQueryAnswer(mock, cmd) EXCEPT !.op = cmd]]
  /\ MockFrame

\* DTCReaderService(mock).read_stored_dtcs()
MockReadStoredDtcs ==
  /\ mock.made
  /\ mock' = [mock EXCEPT
                !.res = [NoMockResult EXCEPT !.op = "read_stored_dtcs",
                                             !.dtcs = StoredDtcs(mock)]]
  /\ MockFrame

\* MockOBDInterfaceManager(config)
MockInit ==
  /\ ManagerIdle
  /\ ServicesIdle
  /\ EngineIdle
  /\ reading = NoReading
  /\ vinfo = NoVin
  /\ session = NoSession
  /\ \E c \in MockClasses : mock = [NoMock EXCEPT !.made = TRUE, !.cls = c]

MockNext ==
  \/ MockConnect
  \/ MockDisconnect
  \/ \E sim \in Sims : LoadSimulationData(sim)
  \/ \E cmd \in MockCommands : MockQuery(cmd)
  \/ MockReadStoredDtcs

MockSpec == MockInit /\ [][MockNext]_vars

\* C26: the mock reports Connected in every state, before the first
\* connect() and after disconnect() included
C26_MockAlwaysConnected == mock.made => MockIsConnected(mock)

\* C26, amended: the mock reports Connected exactly when the last of its
\* connect() and disconnect() calls was a connect(): not before the first
\* connect(), not after a disconnect()
C26_MockConnectedWhileLinked ==
  mock.made => (MockIsConnected(mock) <=> mock.linked)

\* connected, then disconnected: not connected
C26_Witness ==
  /\ mock.made
  /\ mock.res.op = "disconnect"
  /\ mock.res.success
  /\ ~MockIsConnected(mock)

\* C27: connect() on the mock returns success with a protocol name that is
\* not empty and leaves is_connected true; query(RPM) on the connected mock
\* returns success with unit "rpm" and the RPM of the current snapshot, 750
\* while no simulation has brought a value, else the value brought last
C27_MockConnectAndRpm ==
  /\ mock.res.op = "connect" =>
       /\ mock.res.success
       /\ mock.res.protocol # ""
       /\ MockIsConnected(mock)
  /\ (mock.res.op = "RPM" /\ MockIsConnected(mock)) =>
       /\ mock.res.success
       /\ mock.res.unit = "rpm"
       /\ mock.res.value = IF mock.injected = None THEN 750
                           ELSE mock.injected

\* a simulation brought 900 for "0C": query(RPM) answers 900 rpm
C27_Witness ==
  /\ mock.res.op = "RPM"
  /\ MockIsConnected(mock)
  /\ mock.sim.rpm = 900
  /\ mock.res.success
  /\ mock.res.value = 900
  /\ mock.res.unit = "rpm"

\* C28: read_stored_dtcs over a connected mock returns one DTCInfo per
\* trouble code of the mock's snapshot, in the snapshot's order, each with
\* the description of the table (or "Unknown DTC") and the severity of the
\* classifier, for the built-in snapshot and for an injected one
C28_MockStoredDtcs ==
  (mock.res.op = "read_stored_dtcs" /\ MockIsConnected(mock)) =>
    /\ Len(mock.res.dtcs) = Len(mock.mock_dtcs)
    /\ \A i \in 1..Len(mock.mock_dtcs) :
         /\ mock.res.dtcs[i].code = mock.mock_dtcs[i]
         /\ mock.res.dtcs[i].description =
              Lookup(DtcDescriptions, mock.mock_dtcs[i], "Unknown DTC")
         /\ mock.res.dtcs[i].severity = DetermineSeverity(mock.mock_dtcs[i])

\* the live loop tasks running a given worker
LiveLoops(w) == {x \in Loops : tk[x].kind = w /\ tk[x].pc # "done"}

\* C30: the persistent manager has at most one live keep-alive loop and at
\* most one live monitor loop at any time, whatever connect, disconnect and
\* reconnect calls, the monitor's own included, came before
C30_OneLoopOfEach ==
  Persistent =>
    /\ Cardinality(LiveLoops("ka")) <= 1
    /\ Cardinality(LiveLoops("mon")) <= 1

\* C31: every change of the connected flag, the handle or the cached
\* command list of the persistent manager is made by a task that holds the
\* connection lock: the holder, or a task that takes the free lock in the
\* step
C31_MutationsUnderLock ==
  [][(Persistent /\ <<conn, flag, cmds>>' # <<conn, flag, cmds>>) =>
       \E t \in Tasks :
         /\ tk'[t] # tk[t]
         /\ \/ lock = t
            \/ lock = 0 /\ tk[t].pc \in {"cn_lock", "dc_lock"}]_vars

\* C34: a step of a keep-alive loop that is not its cancellation leaves the
\* handle, the command list, the lock, both task references and every other
\* task as they are and the loop at its sleep; the flag is cleared or kept;
\* and a keep-alive loop ends only in a step of a task that cancelled it in
\* _stop_persistent_tasks
C34_KeepAliveOnlyMarks ==
  [][\A t \in Loops :
       (Persistent /\ tk[t].kind = "ka" /\ tk'[t] # tk[t]) =>
         IF tk'[t].pc = "done"
           THEN \E u \in Tasks \ {t} :
                  /\ tk[u].pc \in {"dc_lock", "cn_open"}
                  /\ tk'[u].pc \in {"dc_waitKA", "cn_waitKA"}
           ELSE /\ tk'[t].kind = "ka"
                /\ tk'[t].pc \in {"k_exec", "k_sleep"}
                /\ <<conn, cmds, lock, kaTask, monTask>>' =
                     <<conn, cmds, lock, kaTask, monTask>>
                /\ flag' \in {flag, FALSE}
                /\ conn # 0 => hst'[conn] = hst[conn]
                /\ \A u \in Tasks \ {t} : tk'[u] = tk[u]]_vars

\* a keep-alive command has failed: the flag is cleared on a handle that is
\* up, and the loop is asleep again
C34_Witness ==
  /\ Persistent
  /\ ~flag /\ conn # 0 /\ hst[conn] = "up"
  /\ LoopLive(tk, kaTask) /\ tk[kaTask].pc = "k_sleep"
  /\ LoopLive(tk, monTask)

\* a handle that was opened and has not been closed
OpenHandle(hs, h) == hs[h] \in {"up", "lost"}

\* C36: a new handle is opened only when no handle opened earlier is still
\* unclosed
C36_OneOpenHandle ==
  [][\A h \in Handles :
       (hst[h] = "free" /\ hst'[h] # "free") =>
         \A g \in Handles \ {h} : ~OpenHandle(hst, g)]_vars

\* the last thing every caller did was a disconnect() that has returned
AfterDisconnect ==
  \A c \in Callers : tk[c].pc = "idle" /\ tk[c].prev = "disconnect"

\* C37: from a state in which the callers' disconnect() has returned and the
\* persistent manager is Disconnected, no step opens a handle or gives the
\* manager one, whatever the loops did before
C37_StaysDisconnected ==
  [][(Persistent /\ AfterDisconnect /\ conn = 0) =>
       /\ conn' = 0
       /\ \A h \in Handles : hst[h] = "free" => hst'[h] = "free"]_vars

\* ------------------------------------------------------------ progress

\* loop tasks the manager has no reference to any more
Strays == {x \in Loops : tk[x].pc # "done" /\ x \notin {kaTask, monTask}}

\* the monitor wakes only when the two tasks its reconnect() creates, the
\* strays and the monitor itself fit into the task slots
MonitorWakeBounded(t) ==
  /\ Cardinality(Strays \cup {t}) + 2 <= MaxLoops
  /\ MonitorWake(t)

\* what a task does once it was started: every step between two suspension
\* points, the acquisition of the connection lock included
TaskStep(t) ==
  \/ EnhConnectLock(t)
  \/ MonCancelledAtLock(t)
  \/ \E o \in {"up", "failed", "raise"} : EnhOpenDone(t, o)
  \/ EnhBackoffDone(t)
  \/ \E r \in BOOLEAN : EnhDisconnectLock(t, r)
  \/ \E r \in BOOLEAN : AwaitedKeepAlive(t, r)
  \/ \E r \in BOOLEAN : AwaitedMonitor(t, r)
  \/ \E r \in BOOLEAN : KeepAliveDone(t, r)
  \/ \E o \in {"ok", "null", "io"} : EnhQueryDone(t, o)
  \/ EnhQuerySleepDone(t)

LiveInit == Init /\ kind = "enhanced"

LiveNext ==
  \/ \E c \in Callers : StartConnect(c, 0, FALSE)
  \/ \E c \in Callers : StartDisconnect(c)
  \/ \E c \in Callers : StartReconnect(c)
  \/ \E c \in Callers : EnhStartQuery(c)
  \/ \E h \in Handles : LinkDrop(h)
  \/ \E t \in Loops : KeepAliveWake(t)
  \/ \E t \in Loops : MonitorWakeBounded(t)
  \/ \E o \in orphans : OrphanDone(o)
  \/ \E t \in Tasks : TaskStep(t)

\* the event loop runs every task that is ready, asyncio.Lock wakes its
\* waiters first come first served, and every call handed to the thread pool
\* returns
LiveSpec ==
  /\ LiveInit
  /\ [][LiveNext]_vars
  /\ \A t \in Tasks : SF_vars(TaskStep(t))
  /\ WF_vars(\E o \in orphans : OrphanDone(o))

\* a task is suspended at the connection lock or at the await of a loop it
\* has cancelled
Waiting(t) ==
  tk[t].pc \in {"cn_lock", "dc_lock", "dc_waitKA", "dc_waitMon", "cn_waitKA",
                "cn_waitMon"}

\* C38: every call a caller has made returns, and no task stays for ever at
\* the connection lock or at the await of a cancelled loop: each caller is
\* idle again and again, and each task is again and again not waiting
C38_EveryCallReturns ==
  /\ \A c \in Callers : []<>(tk[c].pc = "idle")
  /\ \A t \in Tasks : []<>(~Waiting(t))

\* a caller waits for the lock while the monitor holds it in its reconnect
C38_Witness ==
  \E c \in Callers :
    /\ tk[c].pc \in {"cn_lock", "dc_lock"}
    /\ lock \in Loops
    /\ tk[lock].kind = "mon"

\* ---------------------------------------------------------------- C33
\* the step in which the thread pool hands an empty answer from a reachable
\* adapter to the query() of t: to its command or to its health probe
NullAnswerFor(t) ==
  /\ tk[t].op = "query"
  /\ tk[t].pc \in {"q_exec", "b_health"}
  /\ hst[tk[t].h] = "up"
  /\ \/ tk'[t].pc # "idle" /\ tk'[t].out = "null"
     \/ tk'[t].pc = "idle" /\ last'[t] # NoResult
          /\ last'[t].err \in {ErrNoData, ErrBtNoData}

\* C33: an empty answer from a reachable adapter, to the command of a
\* query() or to the health probe before it, leaves the handle and the
\* connected flag as they are and starts no disconnect or reconnect: the
\* query sends again or returns a failed result
C33_NullNotEscalated ==
  [][\A t \in Callers :
       (kind # "base" /\ NullAnswerFor(t)) =>
         /\ conn' = conn
         /\ flag' = flag
         /\ conn # 0 => hst'[conn] = hst[conn]
         /\ \/ tk'[t].pc \in {"q_sleep", "q_exec"}
            \/ tk'[t].pc = "idle" /\ ~last'[t].ok]_vars

\* ---------------------------------------------------------------- C35
\* C35: one query() call reconnects at most once before it first sends its
\* command, and a call that returns without having sent it has reconnected
\* at most once
C35_OneReconnectBeforeSend ==
  \A c \in Callers :
    /\ tk[c].op = "query" => tk[c].recs <= 1
    /\ last[c].op = "query" => last[c].recs <= 1

\* ---------------------------------------------------------------- C39
\* the step in which the command of the query() of t comes back with a
\* transport error
TransportErrorFor(t) ==
  /\ tk[t].op = "query"
  /\ tk[t].pc = "q_exec"
  /\ \/ tk'[t].pc # "idle" /\ tk'[t].out = "io"
     \/ tk'[t].pc = "idle" /\ last'[t].err \in {ErrBtSerial, ErrIO}

\* C39: the transport error of a query closes no other handle than the
\* one the query was sent on: when the manager holds a newer handle by
\* then, that handle stays open, stays the manager's and stays marked
\* connected
C39_StaleErrorSparesFreshHandle ==
  [][\A t \in Callers :
       (kind # "base" /\ TransportErrorFor(t) /\ conn # 0
          /\ conn # tk[t].h) =>
         /\ conn' = conn
         /\ flag' = flag
         /\ hst'[conn] = hst[conn]]_vars

\* ---------------------------------------------------------------- C32
\* the two persistent managers side by side, each with its own query()
PersInit == LiveInit \/ BtInit

NextPersistent ==
  \/ NextBluetooth
  \/ \E c \in Callers : EnhStartQuery(c)
  \/ \E t \in Tasks, o \in {"ok", "null", "io"} : EnhQueryDone(t, o)
  \/ \E t \in Tasks : EnhQuerySleepDone(t)

PersSpec == PersInit /\ [][NextPersistent]_vars

\* the step in which the command of the query() of t comes back empty
NullCommandAnswer(t) ==
  /\ tk[t].op = "query"
  /\ tk[t].pc = "q_exec"
  /\ \/ tk'[t].pc # "idle" /\ tk'[t].out = "null"
     \/ tk'[t].pc = "idle" /\ last'[t].err \in {ErrNoData, ErrBtNoData}

\* C32: one query() call sends its command at most QueryAttempts times,
\* the first time and two more; an empty answer makes it sleep and send
\* again while that bound is not reached, and return a failed result for
\* the number of sends made otherwise
C32_BoundedResends ==
  [][\A t \in Callers :
       /\ tk'[t].sends <= QueryAttempts
       /\ last'[t].sends <= QueryAttempts
       /\ NullCommandAnswer(t) =>
            \/ /\ tk'[t].pc = "q_sleep"
               /\ tk'[t].sends = tk[t].sends
               /\ tk[t].sends < QueryAttempts
            \/ /\ tk'[t].pc = "idle"
               /\ ~last'[t].ok
               /\ last'[t].sends = tk[t].sends]_vars

\* a query() of the enhanced manager returned "no data" after three sends
C32_Witness ==
  \E c \in Callers :
    /\ last[c].op = "query"
    /\ last[c].err = ErrNoData
    /\ ~last[c].ok
    /\ last[c].sends = QueryAttempts

\* ---------------------------------------------------------------- C40
\* get_obd_diagnostic_data: the live data is what get_basic_engine_data
\* reads, one read_parameter per id. A read whose query fails, raises or
\* gives a value float() rejects returns None and leaves the id without an
\* entry; the others make a LiveDataReading.

\* a reading made with an expected range of its own
MakeReadingWithRange(v) ==
  [NoReading EXCEPT !.phase = "made", !.value = IF v = None THEN 0 ELSE v,
                    !.min_value = 0, !.max_value = 1]

\* read_parameter: LiveDataReading(pid=, name=, value=, unit=, timestamp=),
\* neither bound given; a value of None is read as 0.0
MakeReading(v) ==
  [NoReading EXCEPT !.phase = "made", !.value = IF v = None THEN 0 ELSE v]

\* the "in_range" of the dictionary entry: reading.is_within_range
LiveEntry(r) ==
  IF IsWithinRange(r.value, r.min_value, r.max_value) THEN "in" ELSE "out"

\* one id of get_basic_engine_data is read with success and entered into
\* diagnostic_data["live_data"]
CollectReading(p, v) ==
  /\ eng.phase = "collect"
  /\ eng.live[p] = "absent"
  /\ reading' = [MakeReading(v) EXCEPT
                   !.phase = "read",
                   !.is_within_range =
                      IsWithinRange(MakeReading(v).value,
                                    MakeReading(v).min_value,
                                    MakeReading(v).max_value)]
  /\ eng' = [eng EXCEPT !.live[p] = LiveEntry(MakeReading(v))]
  /\ UNCHANGED <<static, mgr, hst, tk, orphans, last, svcVars,
                 vinfo, session, mock>>

\* get_obd_diagnostic_data returns; the ids not read have no entry
FinishCollect ==
  /\ eng.phase = "collect"
  /\ eng' = [eng EXCEPT !.phase = "input"]
  /\ UNCHANGED <<static, mgr, hst, tk, orphans, last, svcVars, dataVars>>

\* get_obd_diagnostic_data on a connected manager, the trouble codes read
CollectInit ==
  /\ ManagerIdle
  /\ ServicesIdle
  /\ DataIdle
  /\ \E d \in DtcLists :
        eng = [NoDiagnosis EXCEPT !.phase = "collect", !.dtcs = d]

CollectNext ==
  \/ \E p \in LivePids, v \in Limits : CollectReading(p, v)
  \/ FinishCollect
  \/ ClassifyDtcs
  \/ GenerateHypotheses
  \/ PrepareEnhancedQuery

CollectSpec == CollectInit /\ [][CollectNext]_vars

\* C40: every reading the live-parameter reader makes has no expected
\* range and is_within_range true, so on the data get_obd_diagnostic_data
\* collects no entry has in_range false, the sensor hypothesis is not among
\* the hypotheses and no out-of-range warning among the warnings, whatever
\* the values are
C40_CollectedAlwaysInRange ==
  /\ reading.phase = "read" =>
       /\ reading.min_value = None
       /\ reading.max_value = None
       /\ reading.is_within_range
  /\ \A p \in LivePids : eng.live[p] # "out"
  /\ \A i \in 1..Len(eng.hyps) : eng.hyps[i].id # "sensor_issues"
  /\ \A i \in 1..Len(eng.warns) :
       eng.warns[i].id \notin {"range", "range_explains_dtcs"}

\* both ids read, the last value the largest there is, codes present, and
\* the enhanced query prepared with hypotheses and no sensor hypothesis
C40_Witness ==
  /\ eng.phase = "enhanced"
  /\ \A p \in LivePids : eng.live[p] = "in"
  /\ reading.phase = "read"
  /\ reading.value = MaxValue
  /\ eng.dtcs # <<>>
  /\ eng.hyps # <<>>
====
